---- MODULE Spec2Model ----
\* k8s-pilot: the readonly gate (core/config.py, core/permissions.py), the
\* context-defaulting wrapper (core/context.py), the per-context client cache
\* (core/kubeconfig.py) and the tool set that is registered on top of them.
EXTENDS FiniteSets, Integers, Sequences, TLC

\* ---------------------------------------------------------------- bounds
\* How many times load_kube_config may be invoked for one context name.
MaxLoads == 2
\* How many tool invocations may run at the same time in SpecConc.
NumThreads == 2
\* How many start parameters the process is given at most.
MaxArgs == 2

Threads == 1..NumThreads

\* ---------------------------------------------------------------- values
\* Python's None, as passed for context_name / namespace.
None == "None"
\* A get_api_clients(...) call whose result is not subscripted.
NoKey == "NoKey"
\* Result of a context lookup that found no entry.
NoContext == "NoContext"
\* The write verbs of the cluster API.
WriteVerbs == {"create", "replace", "patch", "delete"}

\* The contexts list of the kubeconfig file: name plus the context mapping,
\* whose namespace key is optional.
KubeContexts ==
  << [name |-> "dev",
      context |-> [cluster |-> "dev-cluster", user |-> "dev-user", namespace |-> "team-a"]],
     [name |-> "staging",
      context |-> [cluster |-> "staging-cluster", user |-> "staging-user"]] >>

\* Context names a caller may pass; "ghost" is in no kubeconfig entry.
ContextArgs == {"dev", "staging", "ghost"}
\* Namespaces a caller may pass.
NamespaceArgs == {"x"}
\* The two parameters use_current_context looks at.
DefaultedParams == {"context_name", "namespace"}
\* A keyword argument of a tool other than those two (name, data, labels, ...).
OtherKw == {"name"}
\* Start parameters of the process: the flag, an abbreviation of it, the flag
\* with a value attached, the help flag, the end-of-options marker and a
\* parameter the parser does not declare.
StartParams == {"--readonly", "--read", "--readonly=1", "--help", "--", "--verbose"}
\* The command lines the process may be started with.
ArgvChoices == UNION {[1..n -> StartParams] : n \in 0..MaxArgs}

\* The file a tool rewrites, ~/.kube/config, and a second kubeconfig file that
\* the KUBECONFIG environment variable may name instead.
HomePath == "~/.kube/config"
OtherPath == "/etc/kube/other.yaml"

\* configmap.py with check_readonly_permission put on configmap_list as well.
ConfigmapTools_list_guarded ==
  <<
    [name |-> "configmap_list", params |-> {"context_name", "namespace"},
     decorators |-> <<"use_current_context", "check_readonly_permission">>,
     lookups |-> <<"core">>, verbs |-> {"list"}, maxreq |-> 1, validates |-> FALSE],
    [name |-> "configmap_create", params |-> {"context_name", "namespace"},
     decorators |-> <<"use_current_context", "check_readonly_permission">>,
     lookups |-> <<"core">>, verbs |-> {"create"}, maxreq |-> 1, validates |-> FALSE],
    [name |-> "configmap_get", params |-> {"context_name", "namespace"},
     decorators |-> <<"use_current_context">>,
     lookups |-> <<"core">>, verbs |-> {"read"}, maxreq |-> 1, validates |-> FALSE],
    [name |-> "configmap_update", params |-> {"context_name", "namespace"},
     decorators |-> <<"use_current_context", "check_readonly_permission">>,
     lookups |-> <<"core">>, verbs |-> {"read", "replace"}, maxreq |-> 2, validates |-> FALSE],
    [name |-> "configmap_delete", params |-> {"context_name", "namespace"},
     decorators |-> <<"use_current_context", "check_readonly_permission">>,
     lookups |-> <<"core">>, verbs |-> {"delete"}, maxreq |-> 1, validates |-> FALSE]
  >>

\* The tools registered by src/tools/configmap.py: parameters the wrappers look at, decorator
\* stack (outermost first), bundle keys looked up, API verbs issued, in source order.
ConfigmapTools ==
  <<
    [name |-> "configmap_list", params |-> {"context_name", "namespace"},
     decorators |-> <<"use_current_context">>,
     lookups |-> <<"core">>, verbs |-> {"list"}, maxreq |-> 1, validates |-> FALSE],
    [name |-> "configmap_create", params |-> {"context_name", "namespace"},
     decorators |-> <<"use_current_context", "check_readonly_permission">>,
     lookups |-> <<"core">>, verbs |-> {"create"}, maxreq |-> 1, validates |-> FALSE],
    [name |-> "configmap_get", params |-> {"context_name", "namespace"},
     decorators |-> <<"use_current_context">>,
     lookups |-> <<"core">>, verbs |-> {"read"}, maxreq |-> 1, validates |-> FALSE],
    [name |-> "configmap_update", params |-> {"context_name", "namespace"},
     decorators |-> <<"use_current_context", "check_readonly_permission">>,
     lookups |-> <<"core">>, verbs |-> {"read", "replace"}, maxreq |-> 2, validates |-> FALSE],
    [name |-> "configmap_delete", params |-> {"context_name", "namespace"},
     decorators |-> <<"use_current_context", "check_readonly_permission">>,
     lookups |-> <<"core">>, verbs |-> {"delete"}, maxreq |-> 1, validates |-> FALSE]
  >>

\* The tools registered by src/tools/daemonset.py: parameters the wrappers look at, decorator
\* stack (outermost first), bundle keys looked up, API verbs issued, in source order.
DaemonsetTools ==
  <<
    [name |-> "daemonset_list", params |-> {"context_name", "namespace"},
     decorators |-> <<"use_current_context">>,
     lookups |-> <<"apps">>, verbs |-> {"list"}, maxreq |-> 1, validates |-> FALSE],
    [name |-> "daemonset_create", params |-> {"context_name", "namespace"},
     decorators |-> <<"use_current_context">>,
     lookups |-> <<"apps">>, verbs |-> {"create"}, maxreq |-> 1, validates |-> FALSE],
    [name |-> "daemonset_get", params |-> {"context_name", "namespace"},
     decorators |-> <<"use_current_context">>,
     lookups |-> <<"apps">>, verbs |-> {"read"}, maxreq |-> 1, validates |-> FALSE],
    [name |-> "daemonset_update", params |-> {"context_name", "namespace"},
     decorators |-> <<"use_current_context">>,
     lookups |-> <<"apps">>, verbs |-> {"read", "replace"}, maxreq |-> 2, validates |-> FALSE],
    [name |-> "daemonset_delete", params |-> {"context_name", "namespace"},
     decorators |-> <<"use_current_context">>,
     lookups |-> <<"apps">>, verbs |-> {"delete"}, maxreq |-> 1, validates |-> FALSE]
  >>

\* The tools registered by src/tools/deployment.py: parameters the wrappers look at, decorator
\* stack (outermost first), bundle keys looked up, API verbs issued, in source order.
DeploymentTools ==
  <<
    [name |-> "deployment_list", params |-> {"context_name", "namespace"},
     decorators |-> <<"use_current_context">>,
     lookups |-> <<"apps">>, verbs |-> {"list"}, maxreq |-> 1, validates |-> FALSE],
    [name |-> "deployment_create", params |-> {"context_name", "namespace"},
     decorators |-> <<"use_current_context">>,
     lookups |-> <<"apps">>, verbs |-> {"create"}, maxreq |-> 1, validates |-> FALSE],
    [name |-> "deployment_get", params |-> {"context_name", "namespace"},
     decorators |-> <<"use_current_context">>,
     lookups |-> <<"apps">>, verbs |-> {"read"}, maxreq |-> 1, validates |-> FALSE],
    [name |-> "deployment_update", params |-> {"context_name", "namespace"},
     decorators |-> <<"use_current_context">>,
     lookups |-> <<"apps">>, verbs |-> {"read", "replace"}, maxreq |-> 2, validates |-> FALSE],
    [name |-> "deployment_delete", params |-> {"context_name", "namespace"},
     decorators |-> <<"use_current_context">>,
     lookups |-> <<"apps">>, verbs |-> {"delete"}, maxreq |-> 1, validates |-> FALSE]
  >>

\* The tools registered by src/tools/ingress.py: parameters the wrappers look at, decorator
\* stack (outermost first), bundle keys looked up, API verbs issued, in source order.
IngressTools ==
  <<
    [name |-> "ingress_list", params |-> {"context_name", "namespace"},
     decorators |-> <<"use_current_context">>,
     lookups |-> <<"networking">>, verbs |-> {"list"}, maxreq |-> 1, validates |-> FALSE],
    [name |-> "ingress_create", params |-> {"context_name", "namespace"},
     decorators |-> <<"use_current_context">>,
     lookups |-> <<"networking">>, verbs |-> {"create"}, maxreq |-> 1, validates |-> FALSE],
    [name |-> "ingress_get", params |-> {"context_name", "namespace"},
     decorators |-> <<"use_current_context">>,
     lookups |-> <<"networking">>, verbs |-> {"read"}, maxreq |-> 1, validates |-> FALSE],
    [name |-> "ingress_update", params |-> {"context_name", "namespace"},
     decorators |-> <<"use_current_context">>,
     lookups |-> <<"networking">>, verbs |-> {"read", "replace"}, maxreq |-> 2, validates |-> FALSE],
    [name |-> "ingress_delete", params |-> {"context_name", "namespace"},
     decorators |-> <<"use_current_context">>,
     lookups |-> <<"networking">>, verbs |-> {"delete"}, maxreq |-> 1, validates |-> FALSE]
  >>

\* The tools registered by src/tools/namespace.py: parameters the wrappers look at, decorator
\* stack (outermost first), bundle keys looked up, API verbs issued, in source order.
NamespaceTools ==
  <<
    [name |-> "list_namespaces", params |-> {"context_name"},
     decorators |-> <<"use_current_context">>,
     lookups |-> <<"core">>, verbs |-> {"list"}, maxreq |-> 1, validates |-> FALSE],
    [name |-> "get_namespace_details", params |-> {"context_name", "namespace"},
     decorators |-> <<"use_current_context">>,
     lookups |-> <<"core">>, verbs |-> {"read"}, maxreq |-> 1, validates |-> FALSE],
    [name |-> "create_namespace", params |-> {"context_name", "namespace"},
     decorators |-> <<"use_current_context", "check_readonly_permission">>,
     lookups |-> <<"core">>, verbs |-> {"create", "read"}, maxreq |-> 2, validates |-> FALSE],
    [name |-> "delete_namespace", params |-> {"context_name", "namespace"},
     decorators |-> <<"use_current_context", "check_readonly_permission">>,
     lookups |-> <<"core">>, verbs |-> {"delete", "read"}, maxreq |-> 2, validates |-> FALSE],
    [name |-> "add_namespace_label", params |-> {"context_name", "namespace"},
     decorators |-> <<"use_current_context", "check_readonly_permission">>,
     lookups |-> <<"core">>, verbs |-> {"patch", "read"}, maxreq |-> 2, validates |-> FALSE],
    [name |-> "remove_namespace_label", params |-> {"context_name", "namespace"},
     decorators |-> <<"use_current_context", "check_readonly_permission">>,
     lookups |-> <<"core">>, verbs |-> {"patch", "read"}, maxreq |-> 2, validates |-> FALSE],
    [name |-> "list_namespace_resources", params |-> {"context_name", "namespace"},
     decorators |-> <<"use_current_context">>,
     lookups |-> <<"core", NoKey, "api_client">>, verbs |-> {"list", "read"}, maxreq |-> 9, validates |-> FALSE],
    [name |-> "set_namespace_resource_quota", params |-> {"context_name", "namespace"},
     decorators |-> <<"use_current_context", "check_readonly_permission">>,
     lookups |-> <<"core">>, verbs |-> {"create", "patch", "read"}, maxreq |-> 4, validates |-> FALSE],
    [name |-> "get_namespace_resource_quota", params |-> {"context_name", "namespace"},
     decorators |-> <<"use_current_context">>,
     lookups |-> <<"core">>, verbs |-> {"list", "read"}, maxreq |-> 2, validates |-> FALSE]
  >>

\* The tools registered by src/tools/node.py: parameters the wrappers look at, decorator
\* stack (outermost first), bundle keys looked up, API verbs issued, in source order.
NodeTools ==
  <<
    [name |-> "list_nodes", params |-> {"context_name"},
     decorators |-> <<"use_current_context">>,
     lookups |-> <<"core">>, verbs |-> {"list"}, maxreq |-> 1, validates |-> FALSE],
    [name |-> "get_node_details", params |-> {"context_name"},
     decorators |-> <<"use_current_context">>,
     lookups |-> <<"core">>, verbs |-> {"read"}, maxreq |-> 1, validates |-> FALSE],
    [name |-> "add_node_label", params |-> {"context_name"},
     decorators |-> <<"use_current_context">>,
     lookups |-> <<"core">>, verbs |-> {"patch", "read"}, maxreq |-> 2, validates |-> FALSE],
    [name |-> "remove_node_label", params |-> {"context_name"},
     decorators |-> <<"use_current_context">>,
     lookups |-> <<"core">>, verbs |-> {"patch", "read"}, maxreq |-> 2, validates |-> FALSE],
    [name |-> "add_node_taint", params |-> {"context_name"},
     decorators |-> <<"use_current_context">>,
     lookups |-> <<"core">>, verbs |-> {"patch", "read"}, maxreq |-> 2, validates |-> TRUE],
    [name |-> "remove_node_taint", params |-> {"context_name"},
     decorators |-> <<"use_current_context">>,
     lookups |-> <<"core">>, verbs |-> {"patch", "read"}, maxreq |-> 2, validates |-> FALSE],
    [name |-> "cordon_node", params |-> {"context_name"},
     decorators |-> <<"use_current_context">>,
     lookups |-> <<"core">>, verbs |-> {"patch", "read"}, maxreq |-> 2, validates |-> FALSE],
    [name |-> "uncordon_node", params |-> {"context_name"},
     decorators |-> <<"use_current_context">>,
     lookups |-> <<"core">>, verbs |-> {"patch", "read"}, maxreq |-> 2, validates |-> FALSE],
    [name |-> "get_node_pods", params |-> {"context_name"},
     decorators |-> <<"use_current_context">>,
     lookups |-> <<"core">>, verbs |-> {"list"}, maxreq |-> 1, validates |-> FALSE]
  >>

\* The tools registered by src/tools/pod.py: parameters the wrappers look at, decorator
\* stack (outermost first), bundle keys looked up, API verbs issued, in source order.
PodTools ==
  <<
    [name |-> "pod_list", params |-> {"context_name", "namespace"},
     decorators |-> <<"use_current_context">>,
     lookups |-> <<"core">>, verbs |-> {"list"}, maxreq |-> 1, validates |-> FALSE],
    [name |-> "pod_detail", params |-> {"context_name", "namespace"},
     decorators |-> <<"use_current_context">>,
     lookups |-> <<"core">>, verbs |-> {"read"}, maxreq |-> 1, validates |-> FALSE],
    [name |-> "pod_create", params |-> {"context_name", "namespace"},
     decorators |-> <<"use_current_context", "check_readonly_permission">>,
     lookups |-> <<"core">>, verbs |-> {"create"}, maxreq |-> 1, validates |-> FALSE],
    [name |-> "pod_update", params |-> {"context_name", "namespace"},
     decorators |-> <<"use_current_context", "check_readonly_permission">>,
     lookups |-> <<"core">>, verbs |-> {"patch", "read"}, maxreq |-> 2, validates |-> FALSE],
    [name |-> "pod_delete", params |-> {"context_name", "namespace"},
     decorators |-> <<"use_current_context", "check_readonly_permission">>,
     lookups |-> <<"core">>, verbs |-> {"delete"}, maxreq |-> 1, validates |-> FALSE],
    [name |-> "pod_logs", params |-> {"context_name", "namespace"},
     decorators |-> <<"use_current_context">>,
     lookups |-> <<"core">>, verbs |-> {"read"}, maxreq |-> 1, validates |-> FALSE]
  >>

\* The tools registered by src/tools/pv.py: parameters the wrappers look at, decorator
\* stack (outermost first), bundle keys looked up, API verbs issued, in source order.
PvTools ==
  <<
    [name |-> "pv_list", params |-> {"context_name"},
     decorators |-> <<"use_current_context">>,
     lookups |-> <<"core">>, verbs |-> {"list"}, maxreq |-> 1, validates |-> FALSE],
    [name |-> "pv_create", params |-> {"context_name"},
     decorators |-> <<"use_current_context", "check_readonly_permission">>,
     lookups |-> <<"core">>, verbs |-> {"create"}, maxreq |-> 1, validates |-> FALSE],
    [name |-> "pv_get", params |-> {"context_name"},
     decorators |-> <<"use_current_context">>,
     lookups |-> <<"core">>, verbs |-> {"read"}, maxreq |-> 1, validates |-> FALSE],
    [name |-> "pv_update", params |-> {"context_name"},
     decorators |-> <<"use_current_context", "check_readonly_permission">>,
     lookups |-> <<"core">>, verbs |-> {"patch", "read"}, maxreq |-> 2, validates |-> FALSE],
    [name |-> "pv_delete", params |-> {"context_name"},
     decorators |-> <<"use_current_context", "check_readonly_permission">>,
     lookups |-> <<"core">>, verbs |-> {"delete"}, maxreq |-> 1, validates |-> FALSE]
  >>

\* The tools registered by src/tools/pvc.py: parameters the wrappers look at, decorator
\* stack (outermost first), bundle keys looked up, API verbs issued, in source order.
PvcTools ==
  <<
    [name |-> "pvc_list", params |-> {"context_name", "namespace"},
     decorators |-> <<"use_current_context">>,
     lookups |-> <<"core">>, verbs |-> {"list"}, maxreq |-> 1, validates |-> FALSE],
    [name |-> "pvc_create", params |-> {"context_name", "namespace"},
     decorators |-> <<"use_current_context">>,
     lookups |-> <<"core">>, verbs |-> {"create"}, maxreq |-> 1, validates |-> FALSE],
    [name |-> "pvc_get", params |-> {"context_name", "namespace"},
     decorators |-> <<"use_current_context">>,
     lookups |-> <<"core">>, verbs |-> {"read"}, maxreq |-> 1, validates |-> FALSE],
    [name |-> "pvc_update", params |-> {"context_name", "namespace"},
     decorators |-> <<"use_current_context">>,
     lookups |-> <<"core">>, verbs |-> {"patch", "read"}, maxreq |-> 2, validates |-> FALSE],
    [name |-> "pvc_delete", params |-> {"context_name", "namespace"},
     decorators |-> <<"use_current_context">>,
     lookups |-> <<"core">>, verbs |-> {"delete"}, maxreq |-> 1, validates |-> FALSE]
  >>

\* The tools registered by src/tools/replicaset.py: parameters the wrappers look at, decorator
\* stack (outermost first), bundle keys looked up, API verbs issued, in source order.
ReplicasetTools ==
  <<
    [name |-> "replicaset_list", params |-> {"context_name", "namespace"},
     decorators |-> <<"use_current_context">>,
     lookups |-> <<"apps">>, verbs |-> {"list"}, maxreq |-> 1, validates |-> FALSE],
    [name |-> "replicaset_create", params |-> {"context_name", "namespace"},
     decorators |-> <<"use_current_context">>,
     lookups |-> <<"apps">>, verbs |-> {"create"}, maxreq |-> 1, validates |-> FALSE],
    [name |-> "replicaset_get", params |-> {"context_name", "namespace"},
     decorators |-> <<"use_current_context">>,
     lookups |-> <<"apps">>, verbs |-> {"read"}, maxreq |-> 1, validates |-> FALSE],
    [name |-> "replicaset_update", params |-> {"context_name", "namespace"},
     decorators |-> <<"use_current_context">>,
     lookups |-> <<"apps">>, verbs |-> {"read", "replace"}, maxreq |-> 2, validates |-> FALSE],
    [name |-> "replicaset_delete", params |-> {"context_name", "namespace"},
     decorators |-> <<"use_current_context">>,
     lookups |-> <<"apps">>, verbs |-> {"delete"}, maxreq |-> 1, validates |-> FALSE]
  >>

\* The tools registered by src/tools/role.py: parameters the wrappers look at, decorator
\* stack (outermost first), bundle keys looked up, API verbs issued, in source order.
RoleTools ==
  <<
    [name |-> "role_list", params |-> {"context_name", "namespace"},
     decorators |-> <<"use_current_context">>,
     lookups |-> <<"rbac">>, verbs |-> {"list"}, maxreq |-> 1, validates |-> FALSE],
    [name |-> "role_create", params |-> {"context_name", "namespace"},
     decorators |-> <<"use_current_context", "check_readonly_permission">>,
     lookups |-> <<"rbac">>, verbs |-> {"create"}, maxreq |-> 1, validates |-> FALSE],
    [name |-> "role_get", params |-> {"context_name", "namespace"},
     decorators |-> <<"use_current_context">>,
     lookups |-> <<"rbac">>, verbs |-> {"read"}, maxreq |-> 1, validates |-> FALSE],
    [name |-> "role_delete", params |-> {"context_name", "namespace"},
     decorators |-> <<"use_current_context", "check_readonly_permission">>,
     lookups |-> <<"rbac">>, verbs |-> {"delete"}, maxreq |-> 1, validates |-> FALSE],
    [name |-> "clusterrole_list", params |-> {"context_name"},
     decorators |-> <<"use_current_context">>,
     lookups |-> <<"rbac">>, verbs |-> {"list"}, maxreq |-> 1, validates |-> FALSE],
    [name |-> "clusterrole_create", params |-> {"context_name"},
     decorators |-> <<"use_current_context", "check_readonly_permission">>,
     lookups |-> <<"rbac">>, verbs |-> {"create"}, maxreq |-> 1, validates |-> FALSE],
    [name |-> "clusterrole_get", params |-> {"context_name"},
     decorators |-> <<"use_current_context">>,
     lookups |-> <<"rbac">>, verbs |-> {"read"}, maxreq |-> 1, validates |-> FALSE],
    [name |-> "clusterrole_delete", params |-> {"context_name"},
     decorators |-> <<"use_current_context", "check_readonly_permission">>,
     lookups |-> <<"rbac">>, verbs |-> {"delete"}, maxreq |-> 1, validates |-> FALSE]
  >>

\* The tools registered by src/tools/secret.py: parameters the wrappers look at, decorator
\* stack (outermost first), bundle keys looked up, API verbs issued, in source order.
SecretTools ==
  <<
    [name |-> "secret_list", params |-> {"context_name", "namespace"},
     decorators |-> <<"use_current_context">>,
     lookups |-> <<"core">>, verbs |-> {"list"}, maxreq |-> 1, validates |-> FALSE],
    [name |-> "secret_create", params |-> {"context_name", "namespace"},
     decorators |-> <<"use_current_context", "check_readonly_permission">>,
     lookups |-> <<"core">>, verbs |-> {"create"}, maxreq |-> 1, validates |-> FALSE],
    [name |-> "secret_get", params |-> {"context_name", "namespace"},
     decorators |-> <<"use_current_context">>,
     lookups |-> <<"core">>, verbs |-> {"read"}, maxreq |-> 1, validates |-> FALSE],
    [name |-> "secret_update", params |-> {"context_name", "namespace"},
     decorators |-> <<"use_current_context", "check_readonly_permission">>,
     lookups |-> <<"core">>, verbs |-> {"read", "replace"}, maxreq |-> 2, validates |-> FALSE],
    [name |-> "secret_delete", params |-> {"context_name", "namespace"},
     decorators |-> <<"use_current_context", "check_readonly_permission">>,
     lookups |-> <<"core">>, verbs |-> {"delete"}, maxreq |-> 1, validates |-> FALSE]
  >>

\* The tools registered by src/tools/service.py: parameters the wrappers look at, decorator
\* stack (outermost first), bundle keys looked up, API verbs issued, in source order.
ServiceTools ==
  <<
    [name |-> "service_list", params |-> {"context_name", "namespace"},
     decorators |-> <<"use_current_context">>,
     lookups |-> <<"core">>, verbs |-> {"list"}, maxreq |-> 1, validates |-> FALSE],
    [name |-> "service_create", params |-> {"context_name", "namespace"},
     decorators |-> <<"use_current_context", "check_readonly_permission">>,
     lookups |-> <<"core">>, verbs |-> {"create"}, maxreq |-> 1, validates |-> FALSE],
    [name |-> "service_get", params |-> {"context_name", "namespace"},
     decorators |-> <<"use_current_context">>,
     lookups |-> <<"core">>, verbs |-> {"read"}, maxreq |-> 1, validates |-> FALSE],
    [name |-> "service_update", params |-> {"context_name", "namespace"},
     decorators |-> <<"use_current_context", "check_readonly_permission">>,
     lookups |-> <<"core">>, verbs |-> {"patch", "read"}, maxreq |-> 2, validates |-> FALSE],
    [name |-> "service_delete", params |-> {"context_name", "namespace"},
     decorators |-> <<"use_current_context", "check_readonly_permission">>,
     lookups |-> <<"core">>, verbs |-> {"delete"}, maxreq |-> 1, validates |-> FALSE]
  >>

\* The tools registered by src/tools/serviceaccount.py: parameters the wrappers look at, decorator
\* stack (outermost first), bundle keys looked up, API verbs issued, in source order.
ServiceaccountTools ==
  <<
    [name |-> "serviceaccount_list", params |-> {"context_name", "namespace"},
     decorators |-> <<"use_current_context">>,
     lookups |-> <<"core">>, verbs |-> {"list"}, maxreq |-> 1, validates |-> FALSE],
    [name |-> "serviceaccount_create", params |-> {"context_name", "namespace"},
     decorators |-> <<"use_current_context", "check_readonly_permission">>,
     lookups |-> <<"core">>, verbs |-> {"create"}, maxreq |-> 1, validates |-> FALSE],
    [name |-> "serviceaccount_get", params |-> {"context_name", "namespace"},
     decorators |-> <<"use_current_context">>,
     lookups |-> <<"core">>, verbs |-> {"read"}, maxreq |-> 1, validates |-> FALSE],
    [name |-> "serviceaccount_delete", params |-> {"context_name", "namespace"},
     decorators |-> <<"use_current_context", "check_readonly_permission">>,
     lookups |-> <<"core">>, verbs |-> {"delete"}, maxreq |-> 1, validates |-> FALSE]
  >>

\* The tools registered by src/tools/statefulset.py: parameters the wrappers look at, decorator
\* stack (outermost first), bundle keys looked up, API verbs issued, in source order.
StatefulsetTools ==
  <<
    [name |-> "statefulset_list", params |-> {"context_name", "namespace"},
     decorators |-> <<"use_current_context">>,
     lookups |-> <<"apps">>, verbs |-> {"list"}, maxreq |-> 1, validates |-> FALSE],
    [name |-> "statefulset_create", params |-> {"context_name", "namespace"},
     decorators |-> <<"use_current_context">>,
     lookups |-> <<"apps">>, verbs |-> {"create"}, maxreq |-> 1, validates |-> FALSE],
    [name |-> "statefulset_get", params |-> {"context_name", "namespace"},
     decorators |-> <<"use_current_context">>,
     lookups |-> <<"apps">>, verbs |-> {"read"}, maxreq |-> 1, validates |-> FALSE],
    [name |-> "statefulset_update", params |-> {"context_name", "namespace"},
     decorators |-> <<"use_current_context">>,
     lookups |-> <<"apps">>, verbs |-> {"read", "replace"}, maxreq |-> 2, validates |-> FALSE],
    [name |-> "statefulset_delete", params |-> {"context_name", "namespace"},
     decorators |-> <<"use_current_context">>,
     lookups |-> <<"apps">>, verbs |-> {"delete"}, maxreq |-> 1, validates |-> FALSE]
  >>

\* The resource tools in the order server.load_modules registers them.
ToolList ==
  ConfigmapTools \o DaemonsetTools \o DeploymentTools \o IngressTools
    \o NamespaceTools \o NodeTools \o PodTools \o PvTools \o PvcTools
    \o ReplicasetTools \o RoleTools \o SecretTools \o ServiceTools
    \o ServiceaccountTools \o StatefulsetTools

Tools == {ToolList[i] : i \in DOMAIN ToolList}

ToolByName(n) == CHOOSE t \in Tools : t.name = n

HasDecorator(t, d) == \E i \in DOMAIN t.decorators : t.decorators[i] = d

\* A tool is mutating when its body issues a create/replace/patch/delete request.
Mutating(t) == t.verbs \cap WriteVerbs # {}

VARIABLES
  phase,            \* "boot" before parse_arguments has run, then "serving"
  _readonly_mode,   \* core/config.py _readonly_mode
  kubeconfig,       \* the persisted cluster configuration file
  _client_cache,    \* core/kubeconfig.py _client_cache: context name -> bundle
  next_id,          \* identity of the next bundle object to be created
  load_count,       \* load_kube_config invocations per context name
  constructed,      \* per context name, the bundle objects built for it
  returned,         \* per context name, the bundle objects get_api_clients returned
  call,             \* the tool invocation whose response is being delivered
  thr,              \* per thread, its position inside get_api_clients
  argv,             \* the start parameters, until parse_arguments has read them
  KUBECONFIG,       \* the environment variable: "unset" or a path
  home_config,      \* content of ~/.kube/config
  disk,             \* bytes of ~/.kube/config on disk: "complete", "empty", "partial"
  observed,         \* what the last read made during a rewrite found
  cluster_call,     \* the cluster tool invocation whose response is being delivered
  cluster,          \* what the cluster stores: the data of one Secret and one ConfigMap
  api_call          \* the invocation, with its API requests, whose response is being delivered

\* kubeconfig is the content of the file at KUBE_CONFIG_DEFAULT_LOCATION, which
\* is ~/.kube/config itself while KUBECONFIG is unset.
cluster_vars == <<KUBECONFIG, home_config, disk, observed, cluster_call>>

api_vars == <<cluster, api_call>>

vars == <<phase, _readonly_mode, kubeconfig, _client_cache, next_id, load_count,
          constructed, returned, call, thr, argv, cluster_vars, api_vars>>

\* ------------------------------------------------- core/context.py
\* A lookup that returns the first entry of the contexts list.
get_current_context_name_first(cfg) == cfg.contexts[1].name

\* config.list_kube_config_contexts() returns the contexts list and the entry
\* named by current-context; get_current_context_name returns that entry's name.
get_current_context_name(cfg) ==
  LET m == {i \in DOMAIN cfg.contexts : cfg.contexts[i].name = cfg.current_context}
  IN IF m = {} THEN NoContext
     ELSE cfg.contexts[CHOOSE i \in m : \A j \in m : i <= j].name

\* A lookup that ignores the namespace an entry declares.
get_default_namespace_undeclared(cfg, context_name) == "default"

\* First entry whose name matches; its namespace if declared, else "default";
\* "default" as well when no entry matches.
get_default_namespace(cfg, context_name) ==
  LET m == {i \in DOMAIN cfg.contexts : cfg.contexts[i].name = context_name}
  IN IF m = {} THEN "default"
     ELSE LET context_data == cfg.contexts[CHOOSE i \in m : \A j \in m : i <= j].context
          IN IF "namespace" \in DOMAIN context_data
             THEN context_data.namespace ELSE "default"

\* kwargs with key k set to v.
SetKw(kwargs, k, v) == [x \in DOMAIN kwargs \cup {k} |-> IF x = k THEN v ELSE kwargs[x]]

Missing(kwargs, k) == k \notin DOMAIN kwargs \/ kwargs[k] = None

\* A wrapper that puts the current context over whatever the caller passed.
DefaultedKwargs_overwrite(t, kwargs, cfg) ==
  IF "context_name" \in t.params
  THEN LET kw1 == SetKw(kwargs, "context_name", get_current_context_name(cfg))
       IN IF "namespace" \in t.params /\ Missing(kw1, "namespace")
          THEN SetKw(kw1, "namespace", get_default_namespace(cfg, kw1["context_name"]))
          ELSE kw1
  ELSE kwargs

\* A wrapper that looks the namespace up before the context is resolved, that
\* is for the current context whatever the caller passed.
DefaultedKwargs_nsfirst(t, kwargs, cfg) ==
  IF "context_name" \in t.params
  THEN LET ns == get_default_namespace(cfg, get_current_context_name(cfg))
           kw1 == IF Missing(kwargs, "context_name")
                  THEN SetKw(kwargs, "context_name", get_current_context_name(cfg))
                  ELSE kwargs
       IN IF "namespace" \in t.params /\ Missing(kw1, "namespace")
          THEN SetKw(kw1, "namespace", ns)
          ELSE kw1
  ELSE kwargs

\* The kwargs that use_current_context.wrapper hands to the function it wraps.
DefaultedKwargs(t, kwargs, cfg) ==
  IF "context_name" \in t.params
  THEN LET kw1 == IF Missing(kwargs, "context_name")
                  THEN SetKw(kwargs, "context_name", get_current_context_name(cfg))
                  ELSE kwargs
           context_name == kw1["context_name"]
       IN IF "namespace" \in t.params /\ Missing(kw1, "namespace")
          THEN SetKw(kw1, "namespace", get_default_namespace(cfg, context_name))
          ELSE kw1
  ELSE kwargs

\* ------------------------------------------------- core/kubeconfig.py
\* The dict built at kubeconfig.py:22-26; id stands for the object's identity.
NewBundle(id, c) == [id |-> id, context |-> c, handles |-> {"core", "apps", "batch"}]

NoBundle == [id |-> 0, context |-> NoContext, handles |-> {}]

\* load_kube_config(context=c) finds c in the kubeconfig contexts list.
HasContext(cfg, c) == \E i \in DOMAIN cfg.contexts : cfg.contexts[i].name = c

Bump(f, c) == [f EXCEPT ![c] = @ + 1]

AddTo(f, c, x) == [f EXCEPT ![c] = @ \cup {x}]

\* The cache-related state that get_api_clients reads and writes.
CacheState == [cache |-> _client_cache, next_id |-> next_id, load_count |-> load_count,
               constructed |-> constructed, returned |-> returned]

\* get_api_clients without the membership test of kubeconfig.py:18.
get_api_clients_nocache(S, cfg, c) ==
  IF ~HasContext(cfg, c)
  THEN [S |-> [S EXCEPT !.load_count = Bump(@, c)],
        err |-> "ConfigException", bundle |-> NoBundle, hit |-> FALSE]
  ELSE LET b == NewBundle(S.next_id, c)
           cache2 == [x \in DOMAIN S.cache \cup {c} |-> IF x = c THEN b ELSE S.cache[x]]
       IN [S |-> [cache |-> cache2, next_id |-> S.next_id + 1,
                  load_count |-> Bump(S.load_count, c),
                  constructed |-> AddTo(S.constructed, c, b.id),
                  returned |-> AddTo(S.returned, c, cache2[c].id)],
           err |-> "none", bundle |-> cache2[c], hit |-> c \in DOMAIN S.cache]

\* get_api_clients that loads the kubeconfig before it looks at the cache.
get_api_clients_reload(S, cfg, c) ==
  IF ~HasContext(cfg, c)
  THEN [S |-> [S EXCEPT !.load_count = Bump(@, c)],
        err |-> "ConfigException", bundle |-> NoBundle, hit |-> FALSE]
  ELSE IF c \in DOMAIN S.cache
  THEN [S |-> [S EXCEPT !.load_count = Bump(@, c), !.returned = AddTo(@, c, S.cache[c].id)],
        err |-> "none", bundle |-> S.cache[c], hit |-> TRUE]
  ELSE LET b == NewBundle(S.next_id, c)
           cache2 == [x \in DOMAIN S.cache \cup {c} |-> IF x = c THEN b ELSE S.cache[x]]
       IN [S |-> [cache |-> cache2, next_id |-> S.next_id + 1,
                  load_count |-> Bump(S.load_count, c),
                  constructed |-> AddTo(S.constructed, c, b.id),
                  returned |-> AddTo(S.returned, c, cache2[c].id)],
           err |-> "none", bundle |-> cache2[c], hit |-> FALSE]

\* get_api_clients that stores the entry before the kubeconfig is loaded into
\* it, so that a failed load leaves an entry without handles behind.
get_api_clients_storefirst(S, cfg, c) ==
  IF c \in DOMAIN S.cache
  THEN [S |-> [S EXCEPT !.returned = AddTo(@, c, S.cache[c].id)],
        err |-> "none", bundle |-> S.cache[c], hit |-> TRUE]
  ELSE IF ~HasContext(cfg, c)
  THEN LET b == [NewBundle(S.next_id, c) EXCEPT !.handles = {}]
       IN [S |-> [S EXCEPT !.load_count = Bump(@, c),
                           !.cache = [x \in DOMAIN S.cache \cup {c} |->
                                        IF x = c THEN b ELSE S.cache[x]],
                           !.next_id = @ + 1],
           err |-> "ConfigException", bundle |-> NoBundle, hit |-> FALSE]
  ELSE LET b == NewBundle(S.next_id, c)
           cache2 == [x \in DOMAIN S.cache \cup {c} |-> IF x = c THEN b ELSE S.cache[x]]
       IN [S |-> [cache |-> cache2, next_id |-> S.next_id + 1,
                  load_count |-> Bump(S.load_count, c),
                  constructed |-> AddTo(S.constructed, c, b.id),
                  returned |-> AddTo(S.returned, c, cache2[c].id)],
           err |-> "none", bundle |-> cache2[c], hit |-> FALSE]

\* get_api_clients run to completion without interleaving: the new cache state,
\* the bundle returned (or the error raised) and whether it was a cache hit.
get_api_clients(S, cfg, c) ==
  IF c \in DOMAIN S.cache
  THEN [S |-> [S EXCEPT !.returned = AddTo(@, c, S.cache[c].id)],
        err |-> "none", bundle |-> S.cache[c], hit |-> TRUE]
  ELSE IF ~HasContext(cfg, c)
  THEN [S |-> [S EXCEPT !.load_count = Bump(@, c)],
        err |-> "ConfigException", bundle |-> NoBundle, hit |-> FALSE]
  ELSE LET b == NewBundle(S.next_id, c)
           cache2 == [x \in DOMAIN S.cache \cup {c} |-> IF x = c THEN b ELSE S.cache[x]]
       IN [S |-> [cache |-> cache2, next_id |-> S.next_id + 1,
                  load_count |-> Bump(S.load_count, c),
                  constructed |-> AddTo(S.constructed, c, b.id),
                  returned |-> AddTo(S.returned, c, cache2[c].id)],
           err |-> "none", bundle |-> cache2[c], hit |-> FALSE]

\* ------------------------------------------------- tool bodies
\* Outcome of one stage of an invocation. entered counts the calls of the
\* undecorated function, received is the kwargs it was called with, gets the
\* get_api_clients calls made, api the cluster API requests issued.
Outcome(S, outcome, entered, received, gets, hit, bundle, api) ==
  [S |-> S, outcome |-> outcome, entered |-> entered, received |-> received,
   gets |-> gets, hit |-> hit, bundle |-> bundle, api |-> api]

\* The get_api_clients(context_name)[key] expressions of a body, in evaluation
\* order, from the i-th on; stops at the first exception.
RECURSIVE Lookups(_, _, _, _, _, _, _)
Lookups(t, i, c, S, cfg, hit, last) ==
  IF i > Len(t.lookups)
  THEN [S |-> S, err |-> "none", gets |-> i - 1, hit |-> hit, bundle |-> last]
  ELSE LET r == get_api_clients(S, cfg, c)
       IN IF r.err # "none"
          THEN [S |-> r.S, err |-> r.err, gets |-> i, hit |-> hit, bundle |-> last]
          ELSE IF t.lookups[i] # NoKey /\ t.lookups[i] \notin r.bundle.handles
          THEN [S |-> r.S, err |-> "KeyError", gets |-> i, hit |-> hit \/ r.hit,
                bundle |-> r.bundle.id]
          ELSE Lookups(t, i + 1, c, r.S, cfg, hit \/ r.hit, r.bundle.id)

\* A body that returns after the handle lookups, without any request.
Body_norequest(t, kwargs, nreq, valid, S, cfg) ==
  LET l == Lookups(t, 1, kwargs["context_name"], S, cfg, FALSE, 0)
  IN IF l.err # "none"
     THEN Outcome(l.S, l.err, 1, kwargs, l.gets, l.hit, l.bundle, 0)
     ELSE Outcome(l.S, "api", 1, kwargs, l.gets, l.hit, l.bundle, 0)

\* The body of a tool: obtain the handles, validate (add_node_taint only), then
\* issue requests; nreq of them are sent before the cluster's answers end the body.
Body(t, kwargs, nreq, valid, S, cfg) ==
  LET l == Lookups(t, 1, kwargs["context_name"], S, cfg, FALSE, 0)
  IN IF l.err # "none"
     THEN Outcome(l.S, l.err, 1, kwargs, l.gets, l.hit, l.bundle, 0)
     ELSE IF t.validates /\ ~valid
     THEN Outcome(l.S, "invalid", 1, kwargs, l.gets, l.hit, l.bundle, 0)
     ELSE Outcome(l.S, "api", 1, kwargs, l.gets, l.hit, l.bundle, nreq)

\* Calling the undecorated function as func(*args, **kwargs): Python binds the
\* first positional argument to context_name and raises TypeError on a clash,
\* an unknown keyword or a missing parameter. The binding of the arguments in
\* OtherKw is left out: they are carried to the body as given.
func(t, args, kwargs, nreq, valid, S, cfg) ==
  LET bound == IF Len(args) > 0 THEN {"context_name"} ELSE {}
  IN IF bound \cap DOMAIN kwargs # {}
        \/ ~((DOMAIN kwargs \ OtherKw) \subseteq t.params)
        \/ ~(t.params \subseteq bound \cup DOMAIN kwargs)
     THEN Outcome(S, "TypeError", 1, kwargs, 0, FALSE, 0, 0)
     ELSE Body(t, IF Len(args) > 0 THEN SetKw(kwargs, "context_name", args[1]) ELSE kwargs,
               nreq, valid, S, cfg)

\* ------------------------------------------------- core/permissions.py
\* A wrapper that never raises.
check_readonly_permission_noraise(readonly, t, args, kwargs, nreq, valid, S, cfg) ==
  func(t, args, kwargs, nreq, valid, S, cfg)

\* A wrapper that raises whatever the flag says.
check_readonly_permission_always(readonly, t, args, kwargs, nreq, valid, S, cfg) ==
  Outcome(S, "PermissionError", 0, kwargs, 0, FALSE, 0, 0)

\* check_readonly_permission.wrapper around func.
check_readonly_permission(readonly, t, args, kwargs, nreq, valid, S, cfg) ==
  IF readonly
  THEN Outcome(S, "PermissionError", 0, kwargs, 0, FALSE, 0, 0)
  ELSE func(t, args, kwargs, nreq, valid, S, cfg)

\* config.list_kube_config_contexts(), which both helpers of context.py call
\* (context.py:16, 34), raises ConfigException when current-context names no
\* entry of the contexts list.
ResolutionFails(t, kwargs, cfg) ==
  /\ "context_name" \in t.params
  /\ \/ Missing(kwargs, "context_name")
     \/ "namespace" \in t.params /\ Missing(kwargs, "namespace")
  /\ get_current_context_name(cfg) = NoContext

\* A stack in which the readonly check runs before the defaulting.
use_current_context_checkfirst(readonly, t, args, kwargs, nreq, valid, S, cfg) ==
  IF HasDecorator(t, "check_readonly_permission") /\ readonly
  THEN Outcome(S, "PermissionError", 0, kwargs, 0, FALSE, 0, 0)
  ELSE IF ResolutionFails(t, kwargs, cfg)
  THEN Outcome(S, "NoCurrentContext", 0, kwargs, 0, FALSE, 0, 0)
  ELSE func(t, args, DefaultedKwargs(t, kwargs, cfg), nreq, valid, S, cfg)

\* use_current_context.wrapper around the rest of the decorator stack; an
\* exception of the defaulting leaves the wrapper before anything else runs.
use_current_context(readonly, t, args, kwargs, nreq, valid, S, cfg) ==
  IF ResolutionFails(t, kwargs, cfg)
  THEN Outcome(S, "NoCurrentContext", 0, kwargs, 0, FALSE, 0, 0)
  ELSE LET kw == DefaultedKwargs(t, kwargs, cfg)
       IN IF HasDecorator(t, "check_readonly_permission")
          THEN check_readonly_permission(readonly, t, args, kw, nreq, valid, S, cfg)
          ELSE func(t, args, kw, nreq, valid, S, cfg)

\* What the server runs for one request to tool t.
ToolCall(readonly, t, args, kwargs, nreq, valid, S, cfg) ==
  IF HasDecorator(t, "use_current_context")
  THEN use_current_context(readonly, t, args, kwargs, nreq, valid, S, cfg)
  ELSE func(t, args, kwargs, nreq, valid, S, cfg)

\* The invocation record kept while the response is delivered.
CallRecord(t, args, kwargs, nreq, valid, r) ==
  [tool |-> t.name, args |-> args, kwargs |-> kwargs, nreq |-> nreq, valid |-> valid,
   outcome |-> r.outcome, entered |-> r.entered, received |-> r.received,
   gets |-> r.gets, hit |-> r.hit, bundle |-> r.bundle, api |-> r.api]

NoCall ==
  [tool |-> "none", args |-> <<>>, kwargs |-> <<>>, nreq |-> 0, valid |-> TRUE,
   outcome |-> "none", entered |-> 0, received |-> <<>>,
   gets |-> 0, hit |-> FALSE, bundle |-> 0, api |-> 0]

\* Keyword arguments a caller may pass: the two defaulted parameters in every
\* combination, and two calls that also carry another argument.
KwargsChoices ==
  LET cs == {<<>>} \cup {[x \in {"context_name"} |-> v] : v \in {None} \cup ContextArgs}
      ns == {<<>>} \cup {[x \in {"namespace"} |-> v] : v \in {None} \cup NamespaceArgs}
  IN {a @@ b : a \in cs, b \in ns}
       \cup {[name |-> "cm1"], [namespace |-> "x", name |-> "cm1"]}

\* Positional arguments a caller may pass (the first parameter is context_name).
ArgsChoices == {<<>>, <<"dev">>}

\* ------------------------------------------------- tools/cluster.py
\* ContextInfo (models/context.py) of the i-th entry of the contexts list.
ContextInfo(config_data, i, current) ==
  [name |-> config_data.contexts[i].name,
   cluster |-> config_data.contexts[i].context.cluster,
   user |-> config_data.contexts[i].context.user,
   current |-> current]

\* get_clusters (cluster.py:10-27): one ContextInfo per entry, in file order,
\* current set where the name equals current-context.
get_clusters(config_data) ==
  [i \in DOMAIN config_data.contexts |->
     ContextInfo(config_data, i,
                 config_data.contexts[i].name = config_data.current_context)]

\* The None that get_current_cluster returns, in the shape of a ContextInfo.
NoContextInfo == [name |-> None, cluster |-> None, user |-> None, current |-> FALSE]

\* A get_current_cluster that returns the first entry of the file.
get_current_cluster_first(config_data) == ContextInfo(config_data, 1, TRUE)

\* get_current_cluster (cluster.py:30-48): the first entry named by
\* current-context, with current = True; None when there is none.
get_current_cluster(config_data) ==
  LET m == {i \in DOMAIN config_data.contexts :
              config_data.contexts[i].name = config_data.current_context}
  IN IF m = {} THEN NoContextInfo
     ELSE ContextInfo(config_data, CHOOSE i \in m : \A j \in m : i <= j, TRUE)

\* A set_current_cluster that does not look the name up in the contexts list.
set_current_cluster_unchecked(config_data, cluster_name) ==
  [wrote |-> TRUE,
   dumped |-> [config_data EXCEPT !.current_context = cluster_name],
   result |-> [status |-> "success",
               message |-> <<"Current context set to", cluster_name>>]]


\* set_current_cluster (cluster.py:51-68) on the mapping that get_kubeconfig
\* loaded: when an entry has the name, current-context is set in the mapping
\* and the whole mapping is dumped to ~/.kube/config (wrote, dumped);
\* otherwise nothing is opened for writing. result is the returned dict.
set_current_cluster(config_data, cluster_name) ==
  IF \E i \in DOMAIN config_data.contexts : config_data.contexts[i].name = cluster_name
  THEN [wrote |-> TRUE,
        dumped |-> [config_data EXCEPT !.current_context = cluster_name],
        result |-> [status |-> "success",
                    message |-> <<"Current context set to", cluster_name>>]]
  ELSE [wrote |-> FALSE,
        dumped |-> config_data,
        result |-> [status |-> "error",
                    message |-> <<"Context", cluster_name, "not found">>]]

\* The cluster tool invocation record kept while the response is delivered.
ClusterCall(tool, arg, result, wrote) ==
  [tool |-> tool, arg |-> arg, result |-> result, wrote |-> wrote]

NoClusterCall == ClusterCall("none", None, <<>>, FALSE)

\* What a read of the kubeconfig file found: the state of the bytes on disk
\* and, when they were complete, the mapping they hold.
ReadResult(state, content) == [state |-> state, content |-> content]

NoRead == ReadResult("none", <<>>)

\* ------------------------------------------------- cluster API requests
\* The status ApiException carries when the object does not exist
\* (namespace.py:61, 90).
NotFound == 404

\* Statuses the cluster may answer a request with; the client raises
\* ApiException for every one but 200.
Statuses == {200, NotFound, 409, 500}

Failed(status) == status # 200

\* One request sent to the cluster: the call site, the status that came back
\* and, for a write, the body that was sent.
Request(site, status, body) == [site |-> site, status |-> status, body |-> body]

\* What the caller of a tool gets: a returned value, whose error field is
\* "none" unless the value is an error report, or an exception that left the
\* tool, with the status it carries.
Returned(error, data) == [kind |-> "returned", error |-> error, status |-> 200, data |-> data]

Raised(exception, status) ==
  [kind |-> "raised", error |-> exception, status |-> status, data |-> <<>>]

\* What a tool body did: the requests it sent, its result, the cluster's store
\* after it.
Done(requests, result, store) == [requests |-> requests, result |-> result, store |-> store]

\* base64.b64encode(value.encode()).decode() and its inverse.
b64encode(value) == <<"base64", value>>

b64decode(encoded) == encoded[2]

\* dict.update: the entries of new laid over those of old.
Overlay(old, new) ==
  [k \in DOMAIN old \cup DOMAIN new |-> IF k \in DOMAIN new THEN new[k] ELSE old[k]]

\* The data field of an object read from the cluster is None, here <<>>, when
\* the object has no entries; the cluster never stores an empty mapping.
NoData == <<>>

\* configmap.py:54-70: one read, nothing caught.
configmap_get(input, st, store) ==
  IF Failed(st[1])
  THEN Done(<<Request("read_namespaced_config_map", st[1], NoData)>>,
            Raised("ApiException", st[1]), store)
  ELSE Done(<<Request("read_namespaced_config_map", st[1], NoData)>>,
            Returned("none", store.configmap), store)

\* configmap.py:73-93: read the ConfigMap, put the given data in place of its
\* data, replace it; nothing caught.
configmap_update(input, st, store) ==
  LET read == Request("read_namespaced_config_map", st[1], NoData)
      replace == Request("replace_namespaced_config_map", st[2], input.data)
  IN IF Failed(st[1]) THEN Done(<<read>>, Raised("ApiException", st[1]), store)
     ELSE IF Failed(st[2]) THEN Done(<<read, replace>>, Raised("ApiException", st[2]), store)
     ELSE Done(<<read, replace>>, Returned("none", "Updated"),
               [store EXCEPT !.configmap = input.data])

\* secret.py:56-77: one read, then every value is decoded; nothing caught, and
\* secret.data.items() needs a mapping.
secret_get(input, st, store) ==
  LET read == Request("read_namespaced_secret", st[1], NoData)
  IN IF Failed(st[1]) THEN Done(<<read>>, Raised("ApiException", st[1]), store)
     ELSE IF store.secret = NoData THEN Done(<<read>>, Raised("AttributeError", 0), store)
     ELSE Done(<<read>>,
               Returned("none", [k \in DOMAIN store.secret |-> b64decode(store.secret[k])]),
               store)

\* secret.py:80-101: read the Secret, encode the given values, update the
\* mapping that was read with them, replace the Secret; nothing caught, and
\* secret.data.update needs a mapping.
secret_update(input, st, store) ==
  LET read == Request("read_namespaced_secret", st[1], NoData)
      encoded_data == [k \in DOMAIN input.data |-> b64encode(input.data[k])]
      data == Overlay(store.secret, encoded_data)
      replace == Request("replace_namespaced_secret", st[2], data)
  IN IF Failed(st[1]) THEN Done(<<read>>, Raised("ApiException", st[1]), store)
     ELSE IF store.secret = NoData THEN Done(<<read>>, Raised("AttributeError", 0), store)
     ELSE IF Failed(st[2]) THEN Done(<<read, replace>>, Raised("ApiException", st[2]), store)
     ELSE Done(<<read, replace>>, Returned("none", "Updated"),
               [store EXCEPT !.secret = data])

\* namespace.py:31-64: one read inside try; 404 and every other ApiException
\* become two different error reports.
get_namespace_details(input, st, store) ==
  LET read == Request("read_namespace", st[1], NoData)
  IN IF st[1] = NotFound THEN Done(<<read>>, Returned("not found", NoData), store)
     ELSE IF Failed(st[1]) THEN Done(<<read>>, Returned("API error", NoData), store)
     ELSE Done(<<read>>, Returned("none", "details"), store)

\* A create_namespace that creates without looking first.
create_namespace_unchecked(input, st, store) ==
  LET create == Request("create_namespace", st[2], NoData)
  IN IF Failed(st[2])
     THEN Done(<<create>>, Returned("Failed to create namespace", NoData), store)
     ELSE Done(<<create>>, Returned("none", "created successfully"), store)

\* namespace.py:67-110: read the namespace first; found: "already exists";
\* an ApiException other than 404: "API error"; only after a 404 the create
\* call, whose ApiException becomes "Failed to create namespace".
create_namespace(input, st, store) ==
  LET read == Request("read_namespace", st[1], NoData)
      create == Request("create_namespace", st[2], NoData)
  IN IF ~Failed(st[1]) THEN Done(<<read>>, Returned("already exists", NoData), store)
     ELSE IF st[1] # NotFound THEN Done(<<read>>, Returned("API error", NoData), store)
     ELSE IF Failed(st[2])
     THEN Done(<<read, create>>, Returned("Failed to create namespace", NoData), store)
     ELSE Done(<<read, create>>, Returned("none", "created successfully"), store)

\* A pod_delete that sends the delete once more when it failed.
pod_delete_again(input, st, store) ==
  LET delete(i) == Request("delete_namespaced_pod", st[i], NoData)
  IN IF Failed(st[1])
     THEN IF Failed(st[2])
          THEN Done(<<delete(1), delete(2)>>, Returned("An error occurred", NoData), store)
          ELSE Done(<<delete(1), delete(2)>>, Returned("none", "Deleted"), store)
     ELSE Done(<<delete(1)>>, Returned("none", "Deleted"), store)

\* pod.py:285-331: one delete inside try; every exception becomes a dict with
\* status "Error"; an answer whose status field is not "Success" is reported
\* as "Failed".
pod_delete(input, st, store) ==
  LET delete == Request("delete_namespaced_pod", st[1], NoData)
  IN IF Failed(st[1])
     THEN Done(<<delete>>, Returned("An error occurred", NoData), store)
     ELSE IF input.reply = "Success"
     THEN Done(<<delete>>, Returned("none", "Deleted"), store)
     ELSE Done(<<delete>>, Returned("Failed", NoData), store)

\* node.py:210.
valid_effects == {"NoSchedule", "PreferNoSchedule", "NoExecute"}

V1Taint(key, value, effect) == [key |-> key, value |-> value, effect |-> effect]

\* An add_node_taint that appends whatever the node has already.
add_node_taint_append(input, st, store) ==
  LET read == Request("read_node", st[1], NoData)
      patch == Request("patch_node", st[2],
                       Append(input.taints,
                              V1Taint(input.taint_key, input.taint_value, input.taint_effect)))
  IN IF Failed(st[1]) THEN Done(<<read>>, Raised("ApiException", st[1]), store)
     ELSE IF Failed(st[2]) THEN Done(<<read, patch>>, Raised("ApiException", st[2]), store)
     ELSE Done(<<read, patch>>, Returned("none", patch.body), store)

\* node.py:217-277, after the effect was validated: read the node, put the
\* new taint in the place of the first taint that has the key or, when none
\* has it, at the end, and patch spec.taints with the whole list; nothing
\* caught.
add_node_taint(input, st, store) ==
  LET read == Request("read_node", st[1], NoData)
      current_taints == input.taints
      taint == V1Taint(input.taint_key, input.taint_value, input.taint_effect)
      same == {i \in DOMAIN current_taints : current_taints[i].key = input.taint_key}
      first == CHOOSE i \in same : \A j \in same : i <= j
      taints == IF same = {} THEN Append(current_taints, taint)
                ELSE [current_taints EXCEPT ![first] = taint]
      patch == Request("patch_node", st[2], taints)
  IN IF Failed(st[1]) THEN Done(<<read>>, Raised("ApiException", st[1]), store)
     ELSE IF Failed(st[2]) THEN Done(<<read, patch>>, Raised("ApiException", st[2]), store)
     ELSE Done(<<read, patch>>, Returned("none", taints), store)

\* The tools whose bodies are followed request by request.
ApiToolNames ==
  <<"configmap_get", "configmap_update", "secret_get", "secret_update",
    "get_namespace_details", "create_namespace", "pod_delete", "add_node_taint">>

\* The body of the tool with that name.
ApiBody(name, input, st, store) ==
  CASE name = "configmap_get" -> configmap_get(input, st, store)
    [] name = "configmap_update" -> configmap_update(input, st, store)
    [] name = "secret_get" -> secret_get(input, st, store)
    [] name = "secret_update" -> secret_update(input, st, store)
    [] name = "get_namespace_details" -> get_namespace_details(input, st, store)
    [] name = "create_namespace" -> create_namespace(input, st, store)
    [] name = "pod_delete" -> pod_delete(input, st, store)
    [] name = "add_node_taint" -> add_node_taint(input, st, store)

\* The taints a node may have when add_node_taint reads it; the cluster keeps
\* taints apart by key and effect, so two may share a key.
NodeTaints ==
  { <<>>,
    <<V1Taint("k1", "old", "NoSchedule")>>,
    <<V1Taint("k1", "old", "NoSchedule"), V1Taint("k2", "old", "NoExecute")>>,
    <<V1Taint("k2", "old", "NoSchedule"), V1Taint("k1", "old", "NoSchedule")>>,
    <<V1Taint("k1", "old", "NoSchedule"), V1Taint("k1", "old", "NoExecute")>> }

\* The data a caller may pass to secret_update and configmap_update.
UpdateData == {[a |-> "1"], [b |-> "1"]}

NoInput == [none |-> TRUE]

\* The arguments of a tool other than context_name and namespace, and for
\* pod_delete and add_node_taint what the cluster holds or answers.
Inputs(name) ==
  CASE name \in {"configmap_update", "secret_update"} -> {[data |-> d] : d \in UpdateData}
    [] name = "pod_delete" -> {[reply |-> r] : r \in {"Success", "Pod"}}
    [] name = "add_node_taint" ->
         {[taints |-> t, taint_key |-> k, taint_value |-> "new", taint_effect |-> e] :
            t \in NodeTaints, k \in {"k1", "k2"}, e \in {"NoExecute", "Sometimes"}}
    [] OTHER -> {NoInput}

\* The invocation record kept while the response is delivered: stage is how
\* far the invocation got before the requests (the outcome of ToolCall).
ApiCall(tool, kwargs, input, r, done) ==
  [tool |-> tool, kwargs |-> kwargs, input |-> input, stage |-> r.outcome,
   entered |-> r.entered, gets |-> r.gets, requests |-> done.requests,
   result |-> done.result]

NoApiCall ==
  [tool |-> "none", kwargs |-> <<>>, input |-> NoInput, stage |-> "none",
   entered |-> 0, gets |-> 0, requests |-> <<>>, result |-> Returned("none", NoData)]

\* The Secret and the ConfigMap the cluster holds when the server starts.
StoredAtStart == [secret |-> [a |-> b64encode("0")], configmap |-> [a |-> "0"]]

\* ------------------------------------------------- state machine
IdleThread == [pc |-> "idle", ctx |-> NoContext]

Init ==
  /\ phase = "boot"
  /\ _readonly_mode = FALSE
  /\ kubeconfig \in {[current_context |-> KubeContexts[i].name, contexts |-> KubeContexts]
                      : i \in DOMAIN KubeContexts}
  /\ _client_cache = <<>>
  /\ next_id = 1
  /\ load_count = [c \in ContextArgs |-> 0]
  /\ constructed = [c \in ContextArgs |-> {}]
  /\ returned = [c \in ContextArgs |-> {}]
  /\ call = NoCall
  /\ thr = [t \in Threads |-> IdleThread]
  /\ argv \in ArgvChoices
  /\ KUBECONFIG = "unset"
  /\ home_config = kubeconfig
  /\ disk = "complete"
  /\ observed = NoRead
  /\ cluster_call = NoClusterCall
  /\ cluster = StoredAtStart
  /\ api_call = NoApiCall

\* ------------------------------------------------- core/config.py
\* A parser that accepts the flag only when it is written in full.
ArgKind_exact(tok) ==
  CASE tok = "--" -> "separator"
    [] tok = "--readonly" -> "readonly"
    [] tok = "--readonly=1" -> "readonly_with_value"
    [] tok = "--help" -> "help"
    [] OTHER -> "unknown"

\* How ArgumentParser reads one start parameter, given the two options it has:
\* --readonly (store_true, config.py:10-12) and the -h/--help it adds itself.
\* A unique prefix of a long option stands for the option, an option that
\* takes no value must not have one attached, "--" ends the options.
ArgKind(tok) ==
  CASE tok = "--" -> "separator"
    [] tok \in {"--readonly", "--read"} -> "readonly"
    [] tok = "--readonly=1" -> "readonly_with_value"
    [] tok = "--help" -> "help"
    [] OTHER -> "unknown"

\* parser.parse_known_args() from the i-th parameter on: options are consumed
\* left to right; help prints and exits with status 0, an attached value is a
\* usage error that exits with status 2, anything unknown goes to the list of
\* extras, and everything after "--" is positional.
RECURSIVE parse_known_args(_, _, _)
parse_known_args(args, i, readonly) ==
  IF i > Len(args) THEN [exit |-> "none", readonly |-> readonly]
  ELSE LET kind == ArgKind(args[i])
       IN CASE kind = "separator" -> [exit |-> "none", readonly |-> readonly]
            [] kind = "help" -> [exit |-> "0", readonly |-> readonly]
            [] kind = "readonly_with_value" -> [exit |-> "2", readonly |-> readonly]
            [] kind = "readonly" -> parse_known_args(args, i + 1, TRUE)
            [] OTHER -> parse_known_args(args, i + 1, readonly)

\* parse_arguments (config.py:6-17): the value it stores in _readonly_mode,
\* unless the parser ended the process.
parse_arguments(args) == parse_known_args(args, 1, FALSE)

\* is_readonly_mode (config.py:20-22).
is_readonly_mode == _readonly_mode

\* A start-up that parses whenever asked, also while tools are served.
ParseArguments_anytime ==
  /\ phase # "exited"
  /\ LET r == parse_arguments(argv)
     IN /\ phase' = "serving"
        /\ _readonly_mode' = r.readonly
        /\ argv' = <<>>
  /\ call = NoCall /\ cluster_call.tool = "none"
  /\ UNCHANGED <<kubeconfig, _client_cache, next_id, load_count, constructed, returned,
                 call, thr, cluster_vars>>
  /\ UNCHANGED api_vars

\* k8s_pilot.py:4-9: parse_arguments() runs once, before mcp.run starts to
\* serve; the parameters of a process that the parser ended stay on record.
ParseArguments ==
  /\ phase = "boot"
  /\ LET r == parse_arguments(argv)
     IN IF r.exit = "none"
        THEN /\ phase' = "serving"
             /\ _readonly_mode' = r.readonly
             /\ argv' = <<>>
        ELSE /\ phase' = "exited"
             /\ UNCHANGED <<_readonly_mode, argv>>
  /\ UNCHANGED <<kubeconfig, _client_cache, next_id, load_count, constructed, returned,
                 call, thr, cluster_vars>>
  /\ UNCHANGED api_vars

\* One request to a resource tool, handled to completion.
Invoke ==
  /\ phase = "serving"
  /\ call = NoCall
  /\ cluster_call.tool = "none"
  /\ \E i \in DOMAIN ToolList :
       \E args \in ArgsChoices, kwargs \in KwargsChoices, nreq \in 1..ToolList[i].maxreq,
          valid \in (IF ToolList[i].validates THEN BOOLEAN ELSE {TRUE}) :
         LET t == ToolList[i]
             r == ToolCall(is_readonly_mode, t, args, kwargs, nreq, valid, CacheState, kubeconfig)
         IN \* a caller gives context_name positionally or by keyword, not both
            /\ (Len(args) > 0 => "context_name" \notin DOMAIN kwargs)
            /\ \A c \in ContextArgs : r.S.load_count[c] <= MaxLoads
            /\ r.api \in {0, nreq}
            /\ (r.api = 0 => nreq = 1)
            /\ _client_cache' = r.S.cache
            /\ next_id' = r.S.next_id
            /\ load_count' = r.S.load_count
            /\ constructed' = r.S.constructed
            /\ returned' = r.S.returned
            /\ call' = CallRecord(t, args, kwargs, nreq, valid, r)
  /\ UNCHANGED <<phase, _readonly_mode, kubeconfig, thr, argv, cluster_vars>>
  /\ UNCHANGED api_vars

\* The response of the finished invocation goes back to the caller.
Respond ==
  /\ call # NoCall \/ cluster_call.tool # "none"
  /\ call' = NoCall
  /\ cluster_call' = NoClusterCall
  /\ UNCHANGED <<phase, _readonly_mode, kubeconfig, _client_cache, next_id, load_count,
                 constructed, returned, thr, argv, KUBECONFIG, home_config, disk, observed>>
  /\ UNCHANGED api_vars

\* get_kubeconfig (kubeconfig.py:30-43) reads the file at
\* KUBE_CONFIG_DEFAULT_LOCATION, the value of KUBECONFIG when it is set.
get_kubeconfig == kubeconfig

\* The file set_current_cluster opens for writing (cluster.py:64): always
\* ~/.kube/config, which is the file that is read only while KUBECONFIG is unset.
WriteHome(content) ==
  /\ home_config' = content
  /\ kubeconfig' = IF KUBECONFIG = "unset" THEN content ELSE kubeconfig

\* set_current_cluster behind the readonly gate: refused while the flag is on.
SetCurrentCluster_gated ==
  /\ phase = "serving"
  /\ call = NoCall
  /\ cluster_call.tool = "none"
  /\ \E cluster_name \in ContextArgs :
       LET r == set_current_cluster(get_kubeconfig, cluster_name)
       IN IF is_readonly_mode
          THEN /\ UNCHANGED <<home_config, kubeconfig>>
               /\ cluster_call' = ClusterCall("set_current_cluster", cluster_name,
                                              [status |-> "error",
                                               message |-> <<"PermissionError">>], FALSE)
          ELSE /\ IF r.wrote THEN WriteHome(r.dumped)
                             ELSE UNCHANGED <<home_config, kubeconfig>>
               /\ cluster_call' = ClusterCall("set_current_cluster", cluster_name,
                                              r.result, r.wrote)
  /\ UNCHANGED <<phase, _readonly_mode, _client_cache, next_id, load_count, constructed,
                 returned, call, thr, argv, KUBECONFIG, disk, observed>>
  /\ UNCHANGED api_vars

\* One request to set_current_cluster, handled to completion.
SetCurrentCluster ==
  /\ phase = "serving"
  /\ call = NoCall
  /\ cluster_call.tool = "none"
  /\ \E cluster_name \in ContextArgs :
       LET r == set_current_cluster(get_kubeconfig, cluster_name)
       IN /\ IF r.wrote THEN WriteHome(r.dumped)
                        ELSE UNCHANGED <<home_config, kubeconfig>>
          /\ cluster_call' = ClusterCall("set_current_cluster", cluster_name,
                                         r.result, r.wrote)
  /\ UNCHANGED <<phase, _readonly_mode, _client_cache, next_id, load_count, constructed,
                 returned, call, thr, argv, KUBECONFIG, disk, observed>>
  /\ UNCHANGED api_vars

\* One request to get_clusters.
GetClusters ==
  /\ phase = "serving"
  /\ call = NoCall
  /\ cluster_call.tool = "none"
  /\ cluster_call' = ClusterCall("get_clusters", None, get_clusters(get_kubeconfig), FALSE)
  /\ UNCHANGED <<phase, _readonly_mode, kubeconfig, _client_cache, next_id, load_count,
                 constructed, returned, call, thr, argv, KUBECONFIG, home_config, disk,
                 observed>>
  /\ UNCHANGED api_vars

\* One request to get_current_cluster.
GetCurrentCluster ==
  /\ phase = "serving"
  /\ call = NoCall
  /\ cluster_call.tool = "none"
  /\ cluster_call' = ClusterCall("get_current_cluster", None,
                                 get_current_cluster(get_kubeconfig), FALSE)
  /\ UNCHANGED <<phase, _readonly_mode, kubeconfig, _client_cache, next_id, load_count,
                 constructed, returned, call, thr, argv, KUBECONFIG, home_config, disk,
                 observed>>
  /\ UNCHANGED api_vars

Next ==
  \/ ParseArguments
  \/ Invoke
  \/ Respond
  \/ SetCurrentCluster
  \/ GetClusters
  \/ GetCurrentCluster

Spec == Init /\ [][Next]_vars

\* ------------------------------------------------- a dangling current-context
\* The same server started on a kubeconfig whose current-context names a
\* context that the contexts list does not have.
InitDangling ==
  /\ phase = "boot"
  /\ _readonly_mode = FALSE
  /\ kubeconfig = [current_context |-> "gone", contexts |-> KubeContexts]
  /\ _client_cache = <<>>
  /\ next_id = 1
  /\ load_count = [c \in ContextArgs |-> 0]
  /\ constructed = [c \in ContextArgs |-> {}]
  /\ returned = [c \in ContextArgs |-> {}]
  /\ call = NoCall
  /\ thr = [t \in Threads |-> IdleThread]
  /\ argv \in {<<>>, <<"--readonly">>}
  /\ KUBECONFIG = "unset"
  /\ home_config = kubeconfig
  /\ disk = "complete"
  /\ observed = NoRead
  /\ cluster_call = NoClusterCall
  /\ cluster = StoredAtStart
  /\ api_call = NoApiCall

\* Tool invocations only: the cluster tools would themselves fail on this file.
NextDangling == ParseArguments \/ Invoke \/ Respond

SpecDangling == InitDangling /\ [][NextDangling]_vars

\* ------------------------------------------------- KUBECONFIG names another file
\* What ~/.kube/config holds when the server works on another kubeconfig.
HomeContexts ==
  << [name |-> "minikube",
      context |-> [cluster |-> "minikube", user |-> "minikube"]] >>

\* The same server started with KUBECONFIG set (kubeconfig.py:37-40).
InitEnv ==
  /\ phase = "boot"
  /\ _readonly_mode = FALSE
  /\ kubeconfig = [current_context |-> "dev", contexts |-> KubeContexts]
  /\ _client_cache = <<>>
  /\ next_id = 1
  /\ load_count = [c \in ContextArgs |-> 0]
  /\ constructed = [c \in ContextArgs |-> {}]
  /\ returned = [c \in ContextArgs |-> {}]
  /\ call = NoCall
  /\ thr = [t \in Threads |-> IdleThread]
  /\ argv \in {<<>>, <<"--readonly">>}
  /\ KUBECONFIG = OtherPath
  /\ home_config = [current_context |-> "minikube", contexts |-> HomeContexts]
  /\ disk = "complete"
  /\ observed = NoRead
  /\ cluster_call = NoClusterCall
  /\ cluster = StoredAtStart
  /\ api_call = NoApiCall

SpecEnv == InitEnv /\ [][Next]_vars

\* ------------------------------------------------- tools, request by request
\* The server with a cluster whose Secret may have no data.
InitApi ==
  /\ phase = "boot"
  /\ _readonly_mode = FALSE
  /\ kubeconfig = [current_context |-> "dev", contexts |-> KubeContexts]
  /\ _client_cache = <<>>
  /\ next_id = 1
  /\ load_count = [c \in ContextArgs |-> 0]
  /\ constructed = [c \in ContextArgs |-> {}]
  /\ returned = [c \in ContextArgs |-> {}]
  /\ call = NoCall
  /\ thr = [t \in Threads |-> IdleThread]
  /\ argv \in {<<>>, <<"--readonly">>}
  /\ KUBECONFIG = "unset"
  /\ home_config = kubeconfig
  /\ disk = "complete"
  /\ observed = NoRead
  /\ cluster_call = NoClusterCall
  /\ cluster \in {StoredAtStart, [StoredAtStart EXCEPT !.secret = NoData]}
  /\ api_call = NoApiCall

\* What the caller gets when the invocation ended before any request.
EarlyResult(outcome) ==
  IF outcome = "invalid" THEN Returned("Invalid taint effect", NoData)
  ELSE Raised(outcome, 0)

\* One request to one of the tools of ApiToolNames, handled to completion:
\* the wrappers and the handle lookup as in ToolCall, then the body with the
\* statuses st that the cluster answers its requests with.
ApiInvoke ==
  /\ phase = "serving"
  /\ api_call.tool = "none"
  /\ \E i \in DOMAIN ApiToolNames, c \in {"dev", "ghost"}, st \in [1..2 -> Statuses] :
       \E input \in Inputs(ApiToolNames[i]) :
         LET name == ApiToolNames[i]
             t == ToolByName(name)
             kwargs == [context_name |-> c]
             valid == name = "add_node_taint" => input.taint_effect \in valid_effects
             r == ToolCall(is_readonly_mode, t, <<>>, kwargs, 1, valid, CacheState, kubeconfig)
             done == IF r.outcome = "api" THEN ApiBody(name, input, st, cluster)
                     ELSE Done(<<>>, EarlyResult(r.outcome), cluster)
         IN /\ \A x \in ContextArgs : r.S.load_count[x] <= MaxLoads
            /\ _client_cache' = r.S.cache
            /\ next_id' = r.S.next_id
            /\ load_count' = r.S.load_count
            /\ constructed' = r.S.constructed
            /\ returned' = r.S.returned
            /\ cluster' = done.store
            /\ api_call' = ApiCall(name, kwargs, input, r, done)
  /\ UNCHANGED <<phase, _readonly_mode, kubeconfig, call, thr, argv, cluster_vars>>

\* The response of the finished invocation goes back to the caller.
ApiRespond ==
  /\ api_call.tool # "none"
  /\ api_call' = NoApiCall
  /\ UNCHANGED <<phase, _readonly_mode, kubeconfig, _client_cache, next_id, load_count,
                 constructed, returned, call, thr, argv, cluster_vars, cluster>>

NextApi == ParseArguments \/ ApiInvoke \/ ApiRespond

SpecApi == InitApi /\ [][NextApi]_vars

\* ------------------------------------------------- concurrent get_api_clients
\* Tool bodies running in different threads call get_api_clients; the function
\* takes no lock, so its statements interleave.

\* A tool body in thread t calls get_api_clients(c).
CallGetApiClients(t) ==
  /\ phase = "serving"
  /\ thr[t].pc = "idle"
  /\ \E c \in ContextArgs : thr' = [thr EXCEPT ![t] = [pc |-> "check", ctx |-> c]]
  /\ UNCHANGED <<phase, _readonly_mode, kubeconfig, _client_cache, next_id, load_count,
                 constructed, returned, call,
                 argv, cluster_vars>>
  /\ UNCHANGED api_vars

\* kubeconfig.py:18, the membership test.
CheckCache(t) ==
  /\ thr[t].pc = "check"
  /\ thr' = [thr EXCEPT ![t].pc =
               IF thr[t].ctx \in DOMAIN _client_cache THEN "return" ELSE "load"]
  /\ UNCHANGED <<phase, _readonly_mode, kubeconfig, _client_cache, next_id, load_count,
                 constructed, returned, call,
                 argv, cluster_vars>>
  /\ UNCHANGED api_vars

\* kubeconfig.py:19-21, load_kube_config and the ApiClient; an unknown context
\* raises and ends the call.
LoadKubeConfig(t) ==
  /\ thr[t].pc = "load"
  /\ load_count[thr[t].ctx] < MaxLoads
  /\ load_count' = Bump(load_count, thr[t].ctx)
  /\ thr' = [thr EXCEPT ![t] =
               IF HasContext(kubeconfig, thr[t].ctx) THEN [@ EXCEPT !.pc = "store"]
               ELSE IdleThread]
  /\ UNCHANGED <<phase, _readonly_mode, kubeconfig, _client_cache, next_id,
                 constructed, returned, call,
                 argv, cluster_vars>>
  /\ UNCHANGED api_vars

\* kubeconfig.py:22-26, build the bundle and store it under the context name.
StoreBundle(t) ==
  /\ thr[t].pc = "store"
  /\ LET c == thr[t].ctx
         b == NewBundle(next_id, c)
     IN /\ _client_cache' = [x \in DOMAIN _client_cache \cup {c} |->
                               IF x = c THEN b ELSE _client_cache[x]]
        /\ constructed' = AddTo(constructed, c, b.id)
  /\ next_id' = next_id + 1
  /\ thr' = [thr EXCEPT ![t].pc = "return"]
  /\ UNCHANGED <<phase, _readonly_mode, kubeconfig, load_count, returned, call,
                 argv, cluster_vars>>
  /\ UNCHANGED api_vars

\* kubeconfig.py:27, return what the cache holds for the name now.
ReturnBundle(t) ==
  /\ thr[t].pc = "return"
  /\ returned' = AddTo(returned, thr[t].ctx, _client_cache[thr[t].ctx].id)
  /\ thr' = [thr EXCEPT ![t] = IdleThread]
  /\ UNCHANGED <<phase, _readonly_mode, kubeconfig, _client_cache, next_id, load_count,
                 constructed, call,
                 argv, cluster_vars>>
  /\ UNCHANGED api_vars

NextConc ==
  \/ ParseArguments
  \/ \E t \in Threads : CallGetApiClients(t)
  \/ \E t \in Threads : CheckCache(t)
  \/ \E t \in Threads : LoadKubeConfig(t)
  \/ \E t \in Threads : StoreBundle(t)
  \/ \E t \in Threads : ReturnBundle(t)

SpecConc == Init /\ [][NextConc]_vars

\* ------------------------------------------------- concurrent rewrite of the file
\* set_current_cluster runs in one thread while other requests read the file;
\* nothing locks the file and the write goes to the file itself.

\* cluster.py:58-63: load the mapping, find the entry, set current-context.
RewriteLoad(t) ==
  /\ phase = "serving"
  /\ thr[t].pc = "idle"
  /\ disk = "complete"
  /\ \E cluster_name \in ContextArgs :
       LET r == set_current_cluster(get_kubeconfig, cluster_name)
       IN /\ r.wrote
          /\ thr' = [thr EXCEPT ![t] = [pc |-> "open", ctx |-> cluster_name,
                                        data |-> r.dumped]]
  /\ UNCHANGED <<phase, _readonly_mode, kubeconfig, _client_cache, next_id, load_count,
                 constructed, returned, call, argv, cluster_vars>>
  /\ UNCHANGED api_vars

\* cluster.py:64, open(path, "w"): the file is truncated to zero length.
RewriteOpen(t) ==
  /\ thr[t].pc = "open"
  /\ disk' = "empty"
  /\ thr' = [thr EXCEPT ![t].pc = "dump"]
  /\ UNCHANGED <<phase, _readonly_mode, kubeconfig, _client_cache, next_id, load_count,
                 constructed, returned, call, argv, KUBECONFIG, home_config, observed,
                 cluster_call>>
  /\ UNCHANGED api_vars

\* cluster.py:65, yaml.dump(config_data, f): the document reaches the file in
\* pieces.
RewriteDump(t) ==
  /\ thr[t].pc = "dump"
  /\ disk' = "partial"
  /\ thr' = [thr EXCEPT ![t].pc = "close"]
  /\ UNCHANGED <<phase, _readonly_mode, kubeconfig, _client_cache, next_id, load_count,
                 constructed, returned, call, argv, KUBECONFIG, home_config, observed,
                 cluster_call>>
  /\ UNCHANGED api_vars

\* cluster.py:64-66, leaving the with block: the last piece is flushed and the
\* file holds the dumped mapping.
RewriteClose(t) ==
  /\ thr[t].pc = "close"
  /\ WriteHome(thr[t].data)
  /\ disk' = "complete"
  /\ thr' = [thr EXCEPT ![t] = IdleThread]
  /\ UNCHANGED <<phase, _readonly_mode, _client_cache, next_id, load_count,
                 constructed, returned, call, argv, KUBECONFIG, observed, cluster_call>>
  /\ UNCHANGED api_vars

\* kubeconfig.py:41-43: another request reads the file, whatever it holds now.
ReadKubeconfig(t) ==
  /\ phase = "serving"
  /\ thr[t].pc = "idle"
  /\ observed' = ReadResult(disk, IF disk = "complete" THEN kubeconfig ELSE <<>>)
  /\ UNCHANGED <<phase, _readonly_mode, kubeconfig, _client_cache, next_id, load_count,
                 constructed, returned, call, thr, argv, KUBECONFIG, home_config, disk,
                 cluster_call>>
  /\ UNCHANGED api_vars

NextRewrite ==
  \/ ParseArguments
  \/ \E t \in Threads : RewriteLoad(t)
  \/ \E t \in Threads : RewriteOpen(t)
  \/ \E t \in Threads : RewriteDump(t)
  \/ \E t \in Threads : RewriteClose(t)
  \/ \E t \in Threads : ReadKubeconfig(t)

SpecRewrite == Init /\ [][NextRewrite]_vars

\* ------------------------------------------------- properties
\* The invocation in call reached the body of its tool.
BodyReached == call.outcome \in {"api", "invalid", "KeyError", "ConfigException"}

\* This step is the handling of a request to a resource tool.
InvokeStep == call.tool = "none" /\ call'.tool # "none"

\* The result record of the invocation that call' describes, had it been run by
\* the stage F on the state before the step.
Rerun(F(_, _, _, _, _, _, _), kw) ==
  LET t == ToolByName(call'.tool)
      r == F(t, call'.args, kw, call'.nreq, call'.valid, CacheState, kubeconfig)
  IN /\ call' = CallRecord(t, call'.args, call'.kwargs, call'.nreq, call'.valid, r)
     /\ _client_cache' = r.S.cache
     /\ load_count' = r.S.load_count
     /\ returned' = r.S.returned

\* C1: with readonly mode on, every invocation of a mutating tool ends in
\* PermissionError and issues no cluster API request.
C1_MutatingToolsBlocked ==
  (_readonly_mode /\ call.tool # "none" /\ Mutating(ToolByName(call.tool)))
    => (call.outcome = "PermissionError" /\ call.api = 0)

\* C2: with readonly mode on, a tool decorated with check_readonly_permission
\* raises PermissionError before its body runs: the function is not called,
\* get_api_clients is not called, the cache and the load counters are
\* unchanged and no cluster API request is issued.
C2_GuardedToolRaisesBeforeBody ==
  [][(InvokeStep /\ _readonly_mode
        /\ HasDecorator(ToolByName(call'.tool), "check_readonly_permission"))
       => (/\ call'.outcome = "PermissionError"
           /\ call'.entered = 0
           /\ call'.gets = 0
           /\ call'.api = 0
           /\ _client_cache' = _client_cache
           /\ load_count' = load_count
           /\ constructed' = constructed
           /\ returned' = returned)]_vars

C2_Witness ==
  /\ _readonly_mode
  /\ call.tool = "configmap_create"
  /\ call.args = <<>>
  /\ call.kwargs = [x \in {"namespace"} |-> "x"]
  /\ call.outcome = "PermissionError"

\* C3: with readonly mode on, a tool that issues only list/read requests is
\* not stopped by the gate, and its invocation has the outcome and the effect
\* on the cache that the same invocation has with readonly mode off.
C3_ReadToolsUnaffected ==
  [][(InvokeStep /\ _readonly_mode /\ ~Mutating(ToolByName(call'.tool)))
       => (/\ call'.outcome # "PermissionError"
           /\ call'.entered = 1
           /\ Rerun(LAMBDA t, a, k, n, v, S, cfg : ToolCall(FALSE, t, a, k, n, v, S, cfg),
                    call'.kwargs))]_vars

C3_Witness ==
  /\ _readonly_mode
  /\ call.tool = "configmap_list"
  /\ call.outcome = "api"
  /\ call.api = 1

\* C4: with readonly mode off, check_readonly_permission calls the function it
\* wraps once, with the positional and keyword arguments it was given, and the
\* invocation has exactly the outcome and effect of that call.
C4_OpenGateDelegates ==
  [][(InvokeStep /\ ~_readonly_mode
        /\ HasDecorator(ToolByName(call'.tool), "check_readonly_permission"))
       => (/\ call'.entered = 1
           /\ Rerun(func, DefaultedKwargs(ToolByName(call'.tool), call'.kwargs, kubeconfig)))]_vars

C4_Witness ==
  /\ ~_readonly_mode
  /\ call.tool = "configmap_create"
  /\ call.outcome = "api"
  /\ call.received = [x \in {"context_name", "namespace"} |->
                        IF x = "context_name" THEN "dev" ELSE "x"]

\* C5: in a run of get_api_clients calls made one after the other, all calls
\* for one context name return the same bundle object, and no call returns a
\* bundle that was built for another name.
C5_SameBundlePerContext ==
  \A c \in ContextArgs :
    /\ Cardinality(returned[c]) <= 1
    /\ \A d \in ContextArgs \ {c} : returned[c] \cap constructed[d] = {}

C5_Witness ==
  /\ call.hit
  /\ call.outcome = "api"
  /\ returned["dev"] # {}
  /\ returned["staging"] # {}

\* C6: when calls are made one after the other, a context name for which
\* get_api_clients has returned a bundle has had load_kube_config invoked
\* exactly once, however many calls followed.
C6_LoadedOncePerContext ==
  \A c \in ContextArgs : returned[c] # {} => load_count[c] = 1

C6_Witness ==
  /\ call.hit
  /\ call.tool = "list_namespaces"
  /\ call.received = [x \in {"context_name"} |-> "dev"]
  /\ load_count["dev"] = 1

\* C7: when invocations call get_api_clients concurrently, one bundle is built
\* per context name and every caller gets that bundle.
C7_OneBundleUnderConcurrency ==
  \A c \in ContextArgs :
    /\ Cardinality(constructed[c]) <= 1
    /\ Cardinality(returned[c]) <= 1

\* C8: an entry of the client cache, once stored, is neither removed nor
\* replaced by another bundle.
C8_CacheEntriesStable ==
  [][\A c \in DOMAIN _client_cache :
       c \in DOMAIN _client_cache' /\ _client_cache'[c] = _client_cache[c]]_vars

\* C9: every bundle in the cache has a handle for every key that some tool
\* looks up in it.
C9_BundleHasEveryHandle ==
  \A c \in DOMAIN _client_cache :
    \A t \in Tools :
      \A i \in DOMAIN t.lookups :
        t.lookups[i] # NoKey => t.lookups[i] \in _client_cache[c].handles

\* C10: a tool wrapped by use_current_context that is called without
\* context_name, or with None, runs its body with context_name equal to the
\* current-context of the kubeconfig.
C10_OmittedContextIsCurrent ==
  (/\ call.tool # "none"
   /\ BodyReached
   /\ HasDecorator(ToolByName(call.tool), "use_current_context")
   /\ "context_name" \in ToolByName(call.tool).params
   /\ Missing(call.kwargs, "context_name"))
    => call.received["context_name"] = kubeconfig.current_context

C10_Witness ==
  /\ call.tool = "pod_list"
  /\ BodyReached
  /\ call.kwargs = [x \in {"context_name"} |-> None]
  /\ call.received["context_name"] = "staging"
  /\ "dev" \in DOMAIN _client_cache

\* C11: a tool wrapped by use_current_context that is called without
\* namespace, or with None, runs its body with the namespace declared by the
\* kubeconfig entry of the context the body received, and with "default" when
\* that entry declares none or no entry has that name.
C11_OmittedNamespaceIsContextDefault ==
  (/\ call.tool # "none"
   /\ BodyReached
   /\ HasDecorator(ToolByName(call.tool), "use_current_context")
   /\ "namespace" \in ToolByName(call.tool).params
   /\ Missing(call.kwargs, "namespace"))
    => LET c == call.received["context_name"]
           declaring == {i \in DOMAIN kubeconfig.contexts :
                          /\ kubeconfig.contexts[i].name = c
                          /\ "namespace" \in DOMAIN kubeconfig.contexts[i].context}
       IN IF declaring = {}
          THEN call.received["namespace"] = "default"
          ELSE \E i \in declaring :
                 call.received["namespace"] = kubeconfig.contexts[i].context.namespace

C11_Witness ==
  /\ call.tool = "configmap_list"
  /\ BodyReached
  /\ call.kwargs = [x \in {"context_name"} |-> "dev"]
  /\ kubeconfig.current_context = "staging"
  /\ call.received["namespace"] = "team-a"

\* C12: whatever use_current_context hands to the function it wraps, every
\* keyword argument the caller gave with a value other than None, context_name
\* and namespace included, is handed over with that value, and nothing is
\* added besides context_name and namespace.
C12_SuppliedArgumentsUntouched ==
  (/\ call.tool # "none"
   /\ call.entered = 1
   /\ HasDecorator(ToolByName(call.tool), "use_current_context"))
    => /\ \A k \in DOMAIN call.kwargs :
            call.kwargs[k] # None
              => (k \in DOMAIN call.received /\ call.received[k] = call.kwargs[k])
       /\ DOMAIN call.received \subseteq DOMAIN call.kwargs \cup DefaultedParams

C12_Witness ==
  /\ call.tool = "configmap_create"
  /\ BodyReached
  /\ call.kwargs = [namespace |-> "x", name |-> "cm1"]
  /\ kubeconfig.current_context = "staging"
  /\ call.received = [context_name |-> "staging", namespace |-> "x", name |-> "cm1"]

\* The start parameters that the parser reads as options: those before the
\* first "--".
Options(args) ==
  {i \in DOMAIN args : \A j \in 1..i : args[j] # "--"}

\* C13: the readonly flag is written by start-up parsing only, which is over
\* before any tool is served; from then on no step changes it, so
\* is_readonly_mode gives the same value on every call.
C13_FlagFixedAfterStartup ==
  [][/\ phase # "boot" => is_readonly_mode' = is_readonly_mode
     /\ phase = "boot" => (call'.tool = "none" /\ cluster_call'.tool = "none")
     /\ phase # "boot" => phase' = phase]_vars

C13_Witness ==
  /\ phase = "serving"
  /\ is_readonly_mode
  /\ call.tool = "configmap_list"
  /\ call.outcome = "api"
  /\ "staging" \in DOMAIN _client_cache

\* C14 as stated: start-up parsing never fails, and the flag is on exactly
\* when --readonly is one of the start parameters.
C14_ParsingNeverFails ==
  [][phase = "boot" =>
       /\ phase' # "exited"
       /\ is_readonly_mode' <=> (\E i \in DOMAIN argv : argv[i] = "--readonly")]_vars

\* C14: start-up parsing ends the process exactly when an option before any
\* "--" is the help flag or gives --readonly a value; otherwise it turns the
\* flag on exactly when an option before any "--" is --readonly, in full or
\* abbreviated, and parameters the parser does not declare change nothing.
C14_ParsingOfStartParameters ==
  [][phase = "boot" =>
       LET exits == \E i \in Options(argv) : argv[i] \in {"--help", "--readonly=1"}
           flag == \E i \in Options(argv) : argv[i] \in {"--readonly", "--read"}
       IN /\ phase' = IF exits THEN "exited" ELSE "serving"
          /\ exits => is_readonly_mode' = FALSE
          /\ ~exits => (is_readonly_mode' <=> flag)]_vars

C14_Witness ==
  /\ phase = "exited"
  /\ argv = <<"--read", "--help">>

\* This step is the handling of a request to set_current_cluster.
SetStep == cluster_call.tool = "none" /\ cluster_call'.tool = "set_current_cluster"

\* The name is the name of an entry of the file that the server reads.
Listed(cluster_name) ==
  \E i \in DOMAIN kubeconfig.contexts : kubeconfig.contexts[i].name = cluster_name

\* C15: set_current_cluster with a name that no entry of the contexts list has
\* returns the error result naming it, opens no file for writing and leaves
\* both the file the server reads and ~/.kube/config as they were.
C15_UnknownNameChangesNothing ==
  [][(SetStep /\ ~Listed(cluster_call'.arg)) =>
       /\ cluster_call'.result =
            [status |-> "error", message |-> <<"Context", cluster_call'.arg, "not found">>]
       /\ ~cluster_call'.wrote
       /\ kubeconfig' = kubeconfig
       /\ home_config' = home_config]_vars

C15_Witness ==
  /\ cluster_call.tool = "set_current_cluster"
  /\ cluster_call.arg = "ghost"
  /\ cluster_call.result.status = "error"
  /\ "staging" \in DOMAIN _client_cache

\* C16 as stated: set_current_cluster with the name of a listed context sets
\* current-context of the persisted configuration, the file the server reads,
\* to that name, keeps its contexts list, and changes no other file content.
C16_OnlyCurrentContextChanges ==
  [][(SetStep /\ Listed(cluster_call'.arg)) =>
       /\ cluster_call'.result.status = "success"
       /\ kubeconfig' = [kubeconfig EXCEPT !.current_context = cluster_call'.arg]
       /\ home_config' = IF KUBECONFIG = "unset" THEN kubeconfig' ELSE home_config]_vars

\* C17 as stated: a read of the configuration made while set_current_cluster
\* rewrites it finds the complete old or the complete new file, never an
\* empty or partly written one.
C17_ReadsSeeCompleteFile ==
  /\ observed.state \in {"none", "complete"}
  /\ observed.state = "complete" =>
       observed.content \in {[current_context |-> KubeContexts[i].name,
                              contexts |-> KubeContexts] : i \in DOMAIN KubeContexts}

\* C18 as stated: once a successful set_current_cluster has written a name,
\* an invocation that omits context_name runs its body with that name and
\* with the bundle the cache holds for it.
C18_SwitchTakesEffect ==
  (/\ call.tool # "none"
   /\ BodyReached
   /\ Missing(call.kwargs, "context_name")
   /\ home_config.contexts = kubeconfig.contexts)
    => /\ call.received["context_name"] = home_config.current_context
       /\ call.outcome = "api" =>
            call.bundle = _client_cache[home_config.current_context].id

\* C19: whatever set_current_cluster calls were made, get_clusters returns
\* exactly one entry with current = true, the one named by current-context,
\* and get_current_cluster returns that same entry.
C19_OneCurrentEntry ==
  /\ cluster_call.tool = "get_clusters" =>
       LET result == cluster_call.result
           current == {i \in DOMAIN result : result[i].current}
       IN /\ Cardinality(current) = 1
          /\ \A i \in current : result[i].name = kubeconfig.current_context
          /\ Len(result) = Len(kubeconfig.contexts)
  /\ cluster_call.tool = "get_current_cluster" =>
       LET listed == get_clusters(kubeconfig)
       IN \E i \in DOMAIN listed :
            /\ listed[i].current
            /\ cluster_call.result = listed[i]

C19_Witness ==
  /\ cluster_call.tool = "get_current_cluster"
  /\ cluster_call.result =
       [name |-> "staging", cluster |-> "staging-cluster", user |-> "staging-user",
        current |-> TRUE]
  /\ "dev" \in DOMAIN _client_cache

LastRequestFailed ==
  /\ api_call.requests # <<>>
  /\ Failed(api_call.requests[Len(api_call.requests)].status)

\* C21 as stated: when a cluster API call of a resource tool fails, the
\* caller gets a returned error report, never a raised exception, and the
\* report says "not found" exactly when the failure was a 404.
C21_ApiFailuresAreStructured ==
  (api_call.tool # "none" /\ LastRequestFailed) =>
    /\ api_call.result.kind = "returned"
    /\ api_call.result.error # "none"
    /\ api_call.result.error = "not found"
         <=> api_call.requests[Len(api_call.requests)].status = NotFound

\* This step is the handling of a request to one of the tools of ApiToolNames.
ApiStep == api_call.tool = "none" /\ api_call'.tool # "none"

\* C22: within one invocation no call site sends its request a second time,
\* a refused permission check and a failed get_api_clients construction are
\* each made once and end the invocation with their exception, and when the
\* last request failed the caller is told so.
C22_NothingIsRetried ==
  [][ApiStep =>
       LET requests == api_call'.requests
           c == api_call'.kwargs["context_name"]
       IN /\ \A i, j \in DOMAIN requests : i < j => requests[i].site # requests[j].site
          /\ api_call'.stage = "PermissionError" =>
               /\ api_call'.entered = 0 /\ api_call'.gets = 0 /\ requests = <<>>
               /\ api_call'.result = Raised("PermissionError", 0)
               /\ load_count' = load_count
          /\ api_call'.stage = "ConfigException" =>
               /\ api_call'.gets = 1 /\ requests = <<>>
               /\ api_call'.result = Raised("ConfigException", 0)
               /\ load_count' = [load_count EXCEPT ![c] = @ + 1]
          /\ LastRequestFailed' =>
               (api_call'.result.kind = "raised" \/ api_call'.result.error # "none")]_vars

C22_Witness ==
  /\ api_call.tool = "pod_delete"
  /\ Len(api_call.requests) = 1
  /\ api_call.requests[1].status = 500
  /\ api_call.result.error = "An error occurred"
  /\ load_count["ghost"] = 1

\* The tool of the invocation carries both wrappers.
BothWrappers(name) ==
  /\ HasDecorator(ToolByName(name), "use_current_context")
  /\ HasDecorator(ToolByName(name), "check_readonly_permission")

\* C23: an invocation of a tool with both wrappers goes through defaulting,
\* readonly check, get_api_clients and API requests in this order and stops at
\* the first step that fails: a failed defaulting ends it before the readonly
\* check, a refused check has the defaulted arguments and ends it before the
\* body, a failed handle lookup ends it before any request, and requests are
\* sent only by a body that passed all three.
C23_StepsInOrder ==
  [][(InvokeStep /\ BothWrappers(call'.tool)) =>
       LET t == ToolByName(call'.tool)
           stopped == /\ call'.entered = 0 /\ call'.gets = 0 /\ call'.api = 0
                      /\ _client_cache' = _client_cache /\ load_count' = load_count
       IN /\ ResolutionFails(t, call'.kwargs, kubeconfig) =>
               (call'.outcome = "NoCurrentContext" /\ stopped)
          /\ call'.outcome = "NoCurrentContext" => ResolutionFails(t, call'.kwargs, kubeconfig)
          /\ call'.outcome = "PermissionError" =>
               /\ stopped
               /\ is_readonly_mode
               /\ \A k \in t.params : k \in DOMAIN call'.received /\ call'.received[k] # None
          /\ call'.entered = 1 => ~is_readonly_mode
          /\ call'.gets > 0 => call'.entered = 1
          /\ call'.outcome \in {"ConfigException", "KeyError"} => call'.api = 0
          /\ call'.api > 0 => (call'.gets > 0 /\ call'.outcome = "api")]_vars

C23_Witness ==
  /\ is_readonly_mode
  /\ kubeconfig.current_context = "gone"
  /\ call.tool = "configmap_create"
  /\ call.kwargs = [x \in {"namespace"} |-> "x"]
  /\ call.outcome = "NoCurrentContext"

\* The namespace that the kubeconfig entries named c declare, first entry
\* first; the empty sequence when none declares one.
DeclaredNamespaces(c) ==
  LET Entry(i) == kubeconfig.contexts[i]
      F[i \in 0..Len(kubeconfig.contexts)] ==
        IF i = 0 THEN <<>>
        ELSE IF Entry(i).name = c
             THEN (IF "namespace" \in DOMAIN Entry(i).context
                   THEN F[i - 1] \o <<Entry(i).context.namespace>>
                   ELSE F[i - 1] \o <<"default">>)
             ELSE F[i - 1]
  IN F[Len(kubeconfig.contexts)]

\* C24: the context is settled before the namespace: a caller that passes
\* context_name = c and no namespace reaches the function with context_name = c
\* and with the namespace of c, whatever the current context and its namespace
\* are.
C24_NamespaceFollowsResolvedContext ==
  (/\ call.tool # "none"
   /\ BodyReached
   /\ HasDecorator(ToolByName(call.tool), "use_current_context")
   /\ "namespace" \in ToolByName(call.tool).params
   /\ ~Missing(call.kwargs, "context_name")
   /\ Missing(call.kwargs, "namespace"))
    => /\ call.received["context_name"] = call.kwargs["context_name"]
       /\ call.received["namespace"] =
            (IF DeclaredNamespaces(call.kwargs["context_name"]) = <<>>
             THEN "default"
             ELSE DeclaredNamespaces(call.kwargs["context_name"])[1])

C24_Witness ==
  /\ call.tool = "configmap_get"
  /\ BodyReached
  /\ call.kwargs = [x \in {"context_name"} |-> "staging"]
  /\ kubeconfig.current_context = "dev"
  /\ get_default_namespace(kubeconfig, "dev") = "team-a"
  /\ call.received["namespace"] = "default"

\* C25: a caller that passes context_name as the first positional argument,
\* and not as a keyword, reaches the function body with that value as its
\* context_name.
C25_PositionalContextIsKept ==
  (/\ call.tool # "none"
   /\ HasDecorator(ToolByName(call.tool), "use_current_context")
   /\ "context_name" \in ToolByName(call.tool).params
   /\ call.args # <<>>
   /\ "context_name" \notin DOMAIN call.kwargs
   /\ call.outcome # "PermissionError")
    => /\ BodyReached
       /\ call.received["context_name"] = call.args[1]

\* C26: an invocation in which get_api_clients fails while loading the
\* kubeconfig for its context ends with that exception and leaves the client
\* cache as it was, with no entry for the context; and every entry of the
\* cache, at any time, has the three handles of kubeconfig.py:22-26.
C26_FailedConstructionStoresNothing ==
  [][/\ (InvokeStep /\ call'.outcome = "ConfigException") =>
          /\ call'.gets > 0
          /\ call'.api = 0
          /\ _client_cache' = _client_cache
          /\ call'.received["context_name"] \notin DOMAIN _client_cache'
          /\ load_count'[call'.received["context_name"]]
               = load_count[call'.received["context_name"]] + 1
     /\ (InvokeStep /\ call'.gets > 0
            /\ ~HasContext(kubeconfig, call'.received["context_name"])
            /\ call'.received["context_name"] \notin DOMAIN _client_cache) =>
          call'.outcome = "ConfigException"
     /\ \A c \in DOMAIN _client_cache' :
          /\ _client_cache'[c].handles = {"core", "apps", "batch"}
          /\ _client_cache'[c].context = c]_vars

C26_Witness ==
  /\ call.tool = "configmap_get"
  /\ call.outcome = "ConfigException"
  /\ call.received["context_name"] = "ghost"
  /\ DOMAIN _client_cache = {"dev"}
  /\ load_count["ghost"] = 1

SentTo(site) == {i \in DOMAIN api_call.requests : api_call.requests[i].site = site}

\* C28: create_namespace sends its create request only after its read of the
\* namespace was answered 404: a read that succeeds ends the call with the
\* "already exists" error, a read that fails with another status ends it with
\* the "API error" error, and in both cases no create request is sent.
C28_CreateOnlyAfterNotFound ==
  (api_call.tool = "create_namespace" /\ api_call.stage = "api")
    => /\ api_call.requests # <<>>
       /\ api_call.requests[1].site = "read_namespace"
       /\ SentTo("read_namespace") = {1}
       /\ ~Failed(api_call.requests[1].status) =>
            /\ api_call.result = Returned("already exists", NoData)
            /\ SentTo("create_namespace") = {}
       /\ (Failed(api_call.requests[1].status) /\ api_call.requests[1].status # NotFound) =>
            /\ api_call.result = Returned("API error", NoData)
            /\ SentTo("create_namespace") = {}
       /\ api_call.requests[1].status = NotFound => SentTo("create_namespace") = {2}
       /\ Len(api_call.requests) <= 2

C28_Witness ==
  /\ api_call.tool = "create_namespace"
  /\ Len(api_call.requests) = 2
  /\ api_call.requests[1] = Request("read_namespace", NotFound, NoData)
  /\ api_call.requests[2] = Request("create_namespace", 200, NoData)
  /\ api_call.result = Returned("none", "created successfully")

\* No two taints of the list have the same key.
DistinctKeys(taints) ==
  \A i, j \in DOMAIN taints : taints[i].key = taints[j].key => i = j

\* The taints of the list whose key is not k, in their order.
OtherTaints(taints, k) ==
  LET F[i \in 0..Len(taints)] ==
        IF i = 0 THEN <<>>
        ELSE IF taints[i].key = k THEN F[i - 1] ELSE Append(F[i - 1], taints[i])
  IN F[Len(taints)]

\* C29: add_node_taint with an effect outside valid_effects returns the error
\* and sends no request; with a valid effect and a node whose taints have
\* pairwise distinct keys, the list it sends to patch_node has pairwise
\* distinct keys, has exactly one taint with the given key, which carries the
\* given value and effect, and has every other taint of the node unchanged.
C29_TaintKeysStayUnique ==
  (api_call.tool = "add_node_taint" /\ api_call.stage \in {"api", "invalid"})
    => LET in == api_call.input
       IN /\ in.taint_effect \notin valid_effects =>
               /\ api_call.requests = <<>>
               /\ api_call.result = Returned("Invalid taint effect", NoData)
          /\ in.taint_effect \in valid_effects =>
               /\ api_call.requests # <<>>
               /\ api_call.requests[1].site = "read_node"
               /\ ~Failed(api_call.requests[1].status) =>
                    /\ Len(api_call.requests) = 2
                    /\ api_call.requests[2].site = "patch_node"
          /\ (SentTo("patch_node") # {} /\ DistinctKeys(in.taints)) =>
               \A r \in SentTo("patch_node") :
                 LET body == api_call.requests[r].body
                 IN /\ DistinctKeys(body)
                    /\ \E i \in DOMAIN body :
                         /\ body[i] = V1Taint(in.taint_key, in.taint_value, in.taint_effect)
                         /\ \A j \in DOMAIN body : body[j].key = in.taint_key => j = i
                    /\ OtherTaints(body, in.taint_key) = OtherTaints(in.taints, in.taint_key)

C29_Witness ==
  /\ api_call.tool = "add_node_taint"
  /\ api_call.input.taints
       = <<V1Taint("k2", "old", "NoSchedule"), V1Taint("k1", "old", "NoSchedule")>>
  /\ api_call.input.taint_key = "k1"
  /\ Len(api_call.requests) = 2
  /\ api_call.requests[2].status = 200
  /\ api_call.requests[2].body
       = <<V1Taint("k2", "old", "NoSchedule"), V1Taint("k1", "new", "NoExecute")>>

\* The entries of a stored Secret as secret_get decodes them; a Secret without
\* entries has none.
Decoded(secret) == [k \in DOMAIN secret |-> b64decode(secret[k])]

\* Every request of the invocation was answered without an error status.
AllAnswered == \A i \in DOMAIN api_call.requests : ~Failed(api_call.requests[i].status)

\* C30: a secret_update(name, data) whose requests the cluster answers without
\* error returns "Updated" and leaves the stored Secret with the old entries
\* overlaid with data, which a following secret_get returns; a configmap_update
\* that is answered without error leaves the stored ConfigMap with exactly the
\* given data.
C30_SecretUpdateMerges ==
  [][/\ (ApiStep /\ api_call'.tool = "secret_update" /\ api_call'.stage = "api"
           /\ AllAnswered') =>
          LET merged == Overlay(Decoded(cluster.secret), api_call'.input.data)
          IN /\ api_call'.result = Returned("none", "Updated")
             /\ Decoded(cluster'.secret) = merged
             /\ secret_get(NoInput, <<200, 200>>, cluster').result = Returned("none", merged)
     /\ (ApiStep /\ api_call'.tool = "configmap_update" /\ api_call'.stage = "api"
           /\ AllAnswered') =>
          /\ api_call'.result = Returned("none", "Updated")
          /\ cluster'.configmap = api_call'.input.data]_vars

====
